---- MODULE Spec2Model ----
(***************************************************************************)
(* A model of omegaup/hook_tools: the lint orchestrator (lint.py), its     *)
(* version-control helpers (git_tools.py) and the linters that hold logic  *)
(* of their own (linters.py: WhitespaceLinter and VueHTMLParser).          *)
(*                                                                         *)
(* Ten specifications share the module:                                    *)
(*   SpecWS      WhitespaceLinter.run_one on bounded byte strings          *)
(*   SpecWSOnce  the same, without the second call of run_one              *)
(*   SpecVue     VueHTMLParser.parse fed a bounded stream of constructs    *)
(*   SpecFilter  the allowlist/denylist filter of lint.main                *)
(*   Spec        lint.main: the worker pool, reporting and                 *)
(*               git_tools.attempt_automatic_fixes                         *)
(*   SpecArgs    git_tools.parse_arguments on bounded argument lists       *)
(*   SpecTools   the run_one of the linters that run external tools        *)
(*   SpecI18n    I18nLinter.run_all under lint._run_linter_all             *)
(*   SpecChanged git_tools._get_changed_files on bounded git outputs       *)
(*   SpecCommit  the commit at the end of attempt_automatic_fixes          *)
(***************************************************************************)
EXTENDS Integers, Sequences, FiniteSets, TLC

VARIABLES
    \* ---- WhitespaceLinter (linters.py:192-235)
    ws_pc,          \* "call" | "returned" | "rerun"
    ws_contents,    \* the contents handed to the first run_one
    ws_first,       \* <<contents, violations>> returned by the first run_one
    ws_result,      \* <<contents, violations>> returned by the latest run_one
    \* ---- VueHTMLParser (linters.py:238-297)
    vue_pc,         \* "constructed" | "feeding" | "accepted" | "raised"
    vue_doc,        \* the constructs of |contents|, in the order feed meets them
    vue_idx,        \* the construct feed handles next
    vue_lineno,     \* HTMLParser.lineno (from 1)
    vue_offset,     \* HTMLParser.offset (from 0)
    vue_stack,      \* self._stack
    vue_tags,       \* self._tags
    vue_id_linter_enabled,  \* self._id_linter_enabled
    vue_error,      \* the LinterException that left parse, or NoError
    vue_sections,   \* the sections parse returned
    vue_dropped,    \* history: the open tags the loop of handle_endtag popped
    \* ---- the allowlist/denylist filter of main (lint.py:299-311)
    flt_pc,         \* "filter" | "filtered"
    flt_files,      \* args.files
    flt_options,    \* the options of one linter of config['lint']
    flt_filtered,   \* filtered_files, as passed to _run_linter
    \* ---- main (lint.py:256-338) and what it calls
    main_pc,        \* where main, or attempt_automatic_fixes under it, stands
    tool,           \* args.tool
    continuous_integration,     \* args.continuous_integration
    env_ci,         \* os.environ.get('CONTINUOUS_INTEGRATION') == 'true'
    num_commits,    \* len(args.commits)
    args_files,     \* args.files
    stdin_closed,   \* sys.stdin.closed
    stdin_tty,      \* sys.stdin.isatty(): "unread" until first asked
    stdin_reads,    \* history: the calls of input()
    tree,           \* the contents of the files of the working tree
    head,           \* the contents of the files at args.commits[-1]
    linters_run,    \* the linters of config['lint'] run so far, in order
    tasks,          \* the _run_linter_one tasks of the current pool, by filename
    toolchain_verified,     \* linters._JAVASCRIPT_TOOLCHAIN_VERIFIED
    accesses,       \* history: what each task of the current pool read and wrote
    writes,         \* history: the files _report_linter_results wrote
    file_violations,    \* main's file_violations
    fixable,        \* main's fixable
    all_results,    \* history: the (violation, fixable) results of every linter
    aaf_result,     \* what attempt_automatic_fixes returned: "none" before
    log,            \* history: prompts answered, commands run, messages printed
    \* ---- git_tools.parse_arguments (git_tools.py:183-239)
    cmd_pc,         \* where parse_arguments stands
    cmd_given,      \* history: the arguments as the command line gave them
    cmd_argv,       \* sys.argv, after the tool name
    cmd_all_files,  \* args.all_files
    cmd_files,      \* files, as _get_explicit_file_list returned them
    cmd_commits,    \* args.commits
    cmd_args_files, \* args.files
    cmd_git,        \* history: the listing asked of git: "none" | "diff" | "ls-tree"
    cmd_listing,    \* history: the files git listed
    \* ---- the linters that run external tools (linters.py:79-118, 421-464,
    \*      658-686)
    run_pc,         \* "call" | "running" | "returned" | "raised"
    run_kind,       \* the linter: "javascript" | "python" | "custom"
    run_options,    \* the commands of its options ('extra_js_linters', 'commands')
    run_contents,   \* the contents handed to run_one
    run_header,     \* header of _lint_javascript
    run_written,    \* history: what was first written to the temporary file
    run_tmp,        \* the contents of the temporary file
    run_commands,   \* the commands still to run
    run_ran,        \* history: the commands run, each with what it did
    run_result,     \* <<contents, violations>> returned, <<>> before
    run_error,      \* the exception that left run_one, or NoException
    \* ---- I18nLinter.run_all under lint._run_linter_all (linters.py:592-651,
    \*      lint.py:84-107)
    i18n,           \* one record: the state of a run of the i18n linter
    \* ---- git_tools._get_changed_files (git_tools.py:85-119)
    diff,           \* one record: the state of a run of _get_changed_files
    \* ---- the commit of git_tools.attempt_automatic_fixes (git_tools.py:272-278,
    \*      302-324)
    commit          \* one record: the state of the commit of the fixes

wsVars == <<ws_pc, ws_contents, ws_first, ws_result>>

vueVars == <<vue_pc, vue_doc, vue_idx, vue_lineno, vue_offset, vue_stack,
             vue_tags, vue_id_linter_enabled, vue_error, vue_sections,
             vue_dropped>>

fltVars == <<flt_pc, flt_files, flt_options, flt_filtered>>

argVars == <<tool, continuous_integration, env_ci, num_commits, args_files, head>>
stdinVars == <<stdin_closed, stdin_tty, stdin_reads>>
poolVars == <<linters_run, tasks, toolchain_verified, accesses>>
resultVars == <<file_violations, fixable, all_results>>

mainVars == <<main_pc, argVars, stdinVars, tree, poolVars, writes, resultVars,
              aaf_result, log>>

cmdVars == <<cmd_pc, cmd_given, cmd_argv, cmd_all_files, cmd_files,
             cmd_commits, cmd_args_files, cmd_git, cmd_listing>>

runVars == <<run_pc, run_kind, run_options, run_contents, run_header,
             run_written, run_tmp, run_commands, run_ran, run_result,
             run_error>>

i18nVars == <<i18n>>

changedVars == <<diff>>

commitVars == <<commit>>

vars == <<wsVars, vueVars, fltVars, mainVars, cmdVars, runVars, i18nVars, changedVars, commitVars>>

notWs == <<vueVars, fltVars, mainVars, cmdVars, runVars, i18nVars, changedVars, commitVars>>
notVue == <<wsVars, fltVars, mainVars, cmdVars, runVars, i18nVars, changedVars, commitVars>>
notFlt == <<wsVars, vueVars, mainVars, cmdVars, runVars, i18nVars, changedVars, commitVars>>
notMain == <<wsVars, vueVars, fltVars, cmdVars, runVars, i18nVars, changedVars, commitVars>>
notCmd == <<wsVars, vueVars, fltVars, mainVars, runVars, i18nVars, changedVars, commitVars>>
notRun == <<wsVars, vueVars, fltVars, mainVars, cmdVars, i18nVars, changedVars, commitVars>>
notI18n == <<wsVars, vueVars, fltVars, mainVars, cmdVars, runVars, changedVars, commitVars>>
notChanged == <<wsVars, vueVars, fltVars, mainVars, cmdVars, runVars, i18nVars, commitVars>>
notCommit == <<wsVars, vueVars, fltVars, mainVars, cmdVars, runVars, i18nVars, changedVars>>

(***************************************************************************)
(* Bounds                                                                  *)
(***************************************************************************)
MaxLen == 6         \* longest byte string drawn as WhitespaceLinter input
MaxDocLen == 4      \* most constructs in a document fed to VueHTMLParser
MaxFiles == 2       \* most file names in args.files
MaxPatterns == 2    \* most patterns in an allowlist or a denylist
MaxLinters == 2     \* most linters enabled in config['lint']
MaxReads == 2       \* most lines read from stdin
MaxArgs == 4        \* most arguments after the tool name
MaxToolLen == 3     \* longest byte string handed to a linter that runs tools
MaxCommands == 2    \* most commands in the options of a linter
MaxInvalid == 1     \* most generated files that hold bytes that are not UTF-8
MaxRecords == 2     \* most records in the output of git diff-index or diff-tree

(***************************************************************************)
(* Generic helpers                                                         *)
(***************************************************************************)
SeqsUpTo(S, n) == UNION {[1..k -> S] : k \in 0..n}

(***************************************************************************)
(* WhitespaceLinter                                                        *)
(*                                                                         *)
(* Bytes are modelled by the classes the five regular expressions tell     *)
(* apart:                                                                  *)
(*   CR  \r          LF  \n          SP  a space or a tab, [ \t]           *)
(*   FF  \f or \v: matched by \s but by none of \r, \n, [ \t]              *)
(*   LB  {           RB  }           X   every other byte                  *)
(***************************************************************************)
Bytes == {"CR", "LF", "SP", "FF", "LB", "RB", "X"}

\* \s of a bytes pattern: [ \t\n\r\f\v]
Whitespace == {"SP", "LF", "CR", "FF"}

\* WhitespaceLinter._VALIDATIONS: the error strings, in list order
VALIDATIONS == <<"Windows-style EOF",
                 "trailing whitespace",
                 "consecutive empty lines",
                 "empty lines after an opening brace",
                 "empty lines before a closing brace">>

\* The first index j >= i of s that holds no byte of S (Len(s)+1 when the run
\* reaches the end): where a greedy S* or S+ that starts at i stops.
RECURSIVE RunEnd(_, _, _)
RunEnd(s, i, S) ==
    IF i > Len(s) \/ s[i] \notin S THEN i ELSE RunEnd(s, i + 1, S)

\* re.compile(br'\r\n?') tried at index i: the index after the match, 0 if none.
MatchWindowsEOF(s, i) ==
    IF s[i] # "CR" THEN 0
    ELSE IF i + 1 <= Len(s) /\ s[i + 1] = "LF" THEN i + 2 ELSE i + 1

\* re.compile(br'[ \t]+\n') tried at index i.
MatchTrailing(s, i) ==
    LET j == RunEnd(s, i, {"SP"})
    IN  IF j > i /\ j <= Len(s) /\ s[j] = "LF" THEN j + 1 ELSE 0

\* re.compile(br'\n\n\n+') tried at index i.
MatchConsecutive(s, i) ==
    LET j == RunEnd(s, i, {"LF"})
    IN  IF j - i >= 3 THEN j ELSE 0

\* re.compile(br'{\n\n+') tried at index i.
MatchAfterBrace(s, i) ==
    IF s[i] # "LB" THEN 0
    ELSE LET j == RunEnd(s, i + 1, {"LF"})
         IN  IF j - (i + 1) >= 2 THEN j ELSE 0

\* re.compile(br'\n+\n(\s*})') tried at index i.  \n+ is greedy and gives back
\* one newline to the \n that follows it; \s* then runs over every whitespace
\* byte, newlines included, and must stop on the closing brace.
MatchBeforeBrace(s, i) ==
    LET j == RunEnd(s, i, {"LF"})
        w == RunEnd(s, j, Whitespace)
    IN  IF j - i >= 2 /\ w <= Len(s) /\ s[w] = "RB" THEN w + 1 ELSE 0

\* The k-th pattern of _VALIDATIONS tried at index i of s.
MatchEnd(k, s, i) ==
    CASE k = 1 -> MatchWindowsEOF(s, i)
      [] k = 2 -> MatchTrailing(s, i)
      [] k = 3 -> MatchConsecutive(s, i)
      [] k = 4 -> MatchAfterBrace(s, i)
      [] k = 5 -> MatchBeforeBrace(s, i)

\* The k-th replacement for the match s[i..e-1]; \1 of the fifth pattern is
\* what follows the run of newlines, up to and including the brace.
Replacement(k, s, i, e) ==
    CASE k = 1 -> <<"LF">>
      [] k = 2 -> <<"LF">>
      [] k = 3 -> <<"LF", "LF">>
      [] k = 4 -> <<"LB", "LF">>
      [] k = 5 -> <<"LF">> \o SubSeq(s, RunEnd(s, i, {"LF"}), e - 1)

\* pattern.sub(replace, s) from index i on: leftmost matches, left to right,
\* none overlapping (no pattern of the list matches the empty string).
RECURSIVE SubFrom(_, _, _)
SubFrom(k, s, i) ==
    IF i > Len(s) THEN <<>>
    ELSE LET e == MatchEnd(k, s, i)
         IN  IF e = 0 THEN <<s[i]>> \o SubFrom(k, s, i + 1)
             ELSE Replacement(k, s, i, e) \o SubFrom(k, s, e)

Sub(k, s) == SubFrom(k, s, 1)

\* pattern.search(s) is not None
Search(k, s) == \E i \in 1..Len(s) : MatchEnd(k, s, i) # 0

\* A slip of the loop: every substitution is applied to the original contents
\* and the last one that changed them wins.
RECURSIVE run_one_loop_stale(_, _, _, _)
run_one_loop_stale(k, original, contents, violations) ==
    IF k > Len(VALIDATIONS) THEN <<contents, violations>>
    ELSE LET replaced == Sub(k, original)
         IN  IF replaced # original
             THEN run_one_loop_stale(k + 1, original, replaced,
                                     Append(violations, VALIDATIONS[k]))
             ELSE run_one_loop_stale(k + 1, original, contents, violations)

run_one_loop_mutant(k, contents, violations) ==
    run_one_loop_stale(k, contents, contents, violations)

\* The loop of WhitespaceLinter.run_one from validation k on.
RECURSIVE run_one_loop(_, _, _)
run_one_loop(k, contents, violations) ==
    IF k > Len(VALIDATIONS) THEN <<contents, violations>>
    ELSE LET replaced == Sub(k, contents)
         IN  IF replaced # contents
             THEN run_one_loop(k + 1, replaced, Append(violations, VALIDATIONS[k]))
             ELSE run_one_loop(k + 1, contents, violations)

WhitespaceLinter_run_one(contents) == run_one_loop(1, contents, <<>>)

\* The inputs of TestLinters.test_whitespace, byte classes for bytes
\* ("function()" and "//" shortened to one X each).
TestContents ==
    { <<"X", "CR", "LF", "X", "LF">>,
      <<"X", "LF", "LF", "LF", "X", "LF">>,
      <<"X", "SP", "LB", "LF", "LF", "RB", "LF">>,
      <<"X", "SP", "LB", "LF", "X", "LF", "LF", "RB", "LF">>,
      <<"X", "SP", "LB", "CR", "LF", "LF", "LF", "X", "SP", "LF", "LF", "RB", "LF">> }

WsInit ==
    /\ ws_pc = "call"
    /\ ws_contents \in SeqsUpTo(Bytes, MaxLen) \cup TestContents
    /\ ws_first = <<>>
    /\ ws_result = <<>>

WsIdle ==
    /\ ws_pc = "idle"
    /\ ws_contents = <<>>
    /\ ws_first = <<>>
    /\ ws_result = <<>>

\* linter.run_one('test.txt', contents)
WsRunOne ==
    /\ ws_pc = "call"
    /\ ws_result' = WhitespaceLinter_run_one(ws_contents)
    /\ ws_first' = ws_result'
    /\ ws_pc' = "returned"
    /\ UNCHANGED <<ws_contents, notWs>>

\* run_one again, on the contents the first call returned
WsRunAgain ==
    /\ ws_pc = "returned"
    /\ ws_result' = WhitespaceLinter_run_one(ws_first[1])
    /\ ws_pc' = "rerun"
    /\ UNCHANGED <<ws_contents, ws_first, notWs>>

(***************************************************************************)
(* VueHTMLParser                                                           *)
(*                                                                         *)
(* A document is the sequence of constructs HTMLParser.feed finds in it,   *)
(* each with the text it stands for:                                       *)
(*   start tag    <tag>  or  <tag id="x">                                  *)
(*   end tag      </tag>                                                   *)
(*   data         a newline                                                *)
(*   comment      <!-- id-lint on -->  or  <!-- id-lint off -->            *)
(* feed calls the handler of each construct with getpos() at the first     *)
(* character of the construct and moves the position past it afterwards.   *)
(***************************************************************************)
Tags == {"template", "b", "span"}

Constructs ==
    [kind : {"start"}, tag : Tags, id : BOOLEAN]
    \cup [kind : {"end"}, tag : Tags, id : {FALSE}]
    \cup [kind : {"data"}, tag : {"\n"}, id : {FALSE}]
    \cup [kind : {"comment"}, tag : {"on", "off"}, id : {FALSE}]

StartTag(t) == [kind |-> "start", tag |-> t, id |-> FALSE]
EndTag(t) == [kind |-> "end", tag |-> t, id |-> FALSE]
Newline == [kind |-> "data", tag |-> "\n", id |-> FALSE]

\* len(tag)
TagLen(t) == CASE t = "template" -> 8 [] t = "b" -> 1 [] t = "span" -> 4

\* The number of characters of a construct that is not a newline.
TextLen(c) ==
    CASE c.kind = "start" -> IF c.id THEN TagLen(c.tag) + 9 ELSE TagLen(c.tag) + 2
      [] c.kind = "end" -> TagLen(c.tag) + 3
      [] c.kind = "comment" -> IF c.tag = "on" THEN 19 ELSE 20
      [] c.kind = "data" -> 1

NoError == [message |-> "", line |-> 0, col |-> 0, fixable |-> FALSE]

\* LinterException('Unclosed tag at line %d, column %d' % self.getpos())
UnclosedTagOffByOne(line, col) ==
    [message |-> "Unclosed tag", line |-> line - 1, col |-> col, fixable |-> TRUE]

UnclosedTag(line, col) ==
    [message |-> "Unclosed tag", line |-> line, col |-> col, fixable |-> TRUE]

\* LinterException('Use of "id" attribute ... Found one in line %d', fixable=False)
IdAttribute(line) ==
    [message |-> "Use of id attribute", line |-> line, col |-> 0, fixable |-> FALSE]

\* while self._stack and self._stack[-1][0] != tag: self._stack.pop()
RECURSIVE PopUntil(_, _)
PopUntil(stack, tag) ==
    IF stack # <<>> /\ stack[Len(stack)].tag # tag
    THEN PopUntil(SubSeq(stack, 1, Len(stack) - 1), tag)
    ELSE stack

\* The test documents of TestLinters.test_vue.
TestDocs ==
    { <<StartTag("template"), Newline, StartTag("b"), EndTag("span"), Newline,
        EndTag("template"), Newline>>,
      <<StartTag("template"), Newline, StartTag("b"), EndTag("b"), Newline,
        EndTag("template"), Newline>> }

\* parser = VueHTMLParser()
VueInit ==
    /\ vue_pc = "constructed"
    /\ vue_doc \in SeqsUpTo(Constructs, MaxDocLen) \cup TestDocs
    /\ vue_idx = 1
    /\ vue_lineno = 1
    /\ vue_offset = 0
    /\ vue_stack = <<>>
    /\ vue_tags = <<>>
    /\ vue_id_linter_enabled = TRUE
    /\ vue_error = NoError
    /\ vue_sections = <<>>
    /\ vue_dropped = <<>>

VueIdle ==
    /\ vue_pc = "idle"
    /\ vue_doc = <<>>
    /\ vue_idx = 1
    /\ vue_lineno = 1
    /\ vue_offset = 0
    /\ vue_stack = <<>>
    /\ vue_tags = <<>>
    /\ vue_id_linter_enabled = TRUE
    /\ vue_error = NoError
    /\ vue_sections = <<>>
    /\ vue_dropped = <<>>

\* HTMLParser.updatepos past the construct just handled
UpdatePos ==
    /\ vue_idx' = vue_idx + 1
    /\ IF vue_doc[vue_idx].kind = "data"
       THEN vue_lineno' = vue_lineno + 1 /\ vue_offset' = 0
       ELSE vue_lineno' = vue_lineno
            /\ vue_offset' = vue_offset + TextLen(vue_doc[vue_idx])

\* A LinterException leaves the handler, feed, parse and VueLinter.run_one.
Raise(error) ==
    /\ vue_pc' = "raised"
    /\ vue_error' = error
    /\ UNCHANGED <<vue_idx, vue_lineno, vue_offset, vue_sections>>

\* parse up to feed: self._stack = []; self._tags = []
VueParse ==
    /\ vue_pc = "constructed"
    /\ vue_pc' = "feeding"
    /\ vue_stack' = <<>>
    /\ vue_tags' = <<>>
    /\ UNCHANGED <<vue_doc, vue_idx, vue_lineno, vue_offset,
                   vue_id_linter_enabled, vue_error, vue_sections, vue_dropped,
                   notVue>>

Feeding(kind) ==
    /\ vue_pc = "feeding"
    /\ vue_idx <= Len(vue_doc)
    /\ vue_doc[vue_idx].kind = kind

HandleStartTag ==
    /\ Feeding("start")
    /\ vue_stack' = Append(vue_stack,
                           [tag |-> vue_doc[vue_idx].tag,
                            starttag |-> vue_doc[vue_idx],
                            begin |-> <<vue_lineno - 1, vue_offset>>])
    /\ IF vue_id_linter_enabled /\ vue_doc[vue_idx].id
       THEN Raise(IdAttribute(vue_lineno))
       ELSE UpdatePos /\ UNCHANGED <<vue_pc, vue_error, vue_sections>>
    /\ UNCHANGED <<vue_doc, vue_tags, vue_id_linter_enabled, vue_dropped, notVue>>

HandleEndTag ==
    /\ Feeding("end")
    /\ LET tag == vue_doc[vue_idx].tag
           popped == PopUntil(vue_stack, tag)
       IN  /\ vue_dropped' = vue_dropped
                  \o SubSeq(vue_stack, Len(popped) + 1, Len(vue_stack))
           /\ IF popped = <<>> \/ popped[Len(popped)].tag # tag
              THEN /\ Raise(UnclosedTag(vue_lineno, vue_offset))
                   /\ vue_stack' = popped
                   /\ UNCHANGED vue_tags
              ELSE /\ vue_stack' = SubSeq(popped, 1, Len(popped) - 1)
                   /\ vue_tags' =
                        IF Len(popped) = 1
                        THEN Append(vue_tags,
                                    [tag |-> tag,
                                     starttag |-> popped[1].starttag,
                                     begin |-> popped[1].begin,
                                     end |-> <<vue_lineno - 1, vue_offset>>])
                        ELSE vue_tags
                   /\ UpdatePos
                   /\ UNCHANGED <<vue_pc, vue_error, vue_sections>>
    /\ UNCHANGED <<vue_doc, vue_id_linter_enabled, notVue>>

\* data.strip().split()[1] == 'on', for a comment that holds 'id-lint '
HandleComment ==
    /\ Feeding("comment")
    /\ vue_id_linter_enabled' = (vue_doc[vue_idx].tag = "on")
    /\ UpdatePos
    /\ UNCHANGED <<vue_pc, vue_doc, vue_stack, vue_tags, vue_error,
                   vue_sections, vue_dropped, notVue>>

\* HTMLParser.handle_data is not overridden: the position moves on.
HandleData ==
    /\ Feeding("data")
    /\ UpdatePos
    /\ UNCHANGED <<vue_pc, vue_doc, vue_stack, vue_tags, vue_id_linter_enabled,
                   vue_error, vue_sections, vue_dropped, notVue>>

\* feed returned: parse builds one section per entry of self._tags (the text
\* between begin and end is left out of the model) and returns them.
VueParseReturn ==
    /\ vue_pc = "feeding"
    /\ vue_idx > Len(vue_doc)
    /\ vue_pc' = "accepted"
    /\ vue_sections' = vue_tags
    /\ UNCHANGED <<vue_doc, vue_idx, vue_lineno, vue_offset, vue_stack,
                   vue_tags, vue_id_linter_enabled, vue_error, vue_dropped,
                   notVue>>

(***************************************************************************)
(* The allowlist/denylist filter (lint.py:299-311)                         *)
(*                                                                         *)
(* A regular expression is known by what pattern.match(filename) answers   *)
(* for each file name of the model; match anchors at the start of the      *)
(* name only.                                                              *)
(***************************************************************************)
Filenames == {"a.js", "b.js", "a.py"}

Patterns == {".*", "a", ".*\\.js$", "\\.py"}

\* re.compile(pattern).match(filename) is not None
Match(pattern, filename) ==
    CASE pattern = ".*" -> TRUE
      [] pattern = "a" -> filename \in {"a.js", "a.py"}
      [] pattern = ".*\\.js$" -> filename \in {"a.js", "b.js"}
      [] pattern = "\\.py" -> FALSE    \* no name starts with '.py'

\* options.get(key, default)
Get(options, key, default) ==
    IF key \in DOMAIN options THEN options[key] ELSE default

\* The options of a linter: 'allowlist' and 'denylist' are lists of patterns,
\* each key present or not.
OptionsUpTo(n) ==
    UNION {[D -> SeqsUpTo(Patterns, n)] : D \in SUBSET {"allowlist", "denylist"}}

\* The options main meets in config['lint']: one pattern a list is enough to
\* pass any part of args.files on to a linter.
ConfigOptions == OptionsUpTo(1)

\* And not in the denylist, with a slip: a file is kept when some pattern of
\* the denylist does not match it.
NotInDenylistAny(files, denylist) ==
    SelectSeq(files, LAMBDA filename :
        \E i \in 1..Len(denylist) : ~Match(denylist[i], filename))

\* [filename for filename in filtered_files if any(r.match(filename) for r in allowlist)]
InAllowlist(files, allowlist) ==
    SelectSeq(files, LAMBDA filename :
        \E i \in 1..Len(allowlist) : Match(allowlist[i], filename))

\* [filename for filename in filtered_files if all(not r.match(filename) for r in denylist)]
NotInDenylist(files, denylist) ==
    SelectSeq(files, LAMBDA filename :
        \A i \in 1..Len(denylist) : ~Match(denylist[i], filename))

\* filtered_files of one iteration of main's loop over the enabled linters
FilterFiles(files, options) ==
    NotInDenylist(InAllowlist(files, Get(options, "allowlist", <<>>)),
                  Get(options, "denylist", <<>>))

FltInit ==
    /\ flt_pc = "filter"
    /\ flt_files \in SeqsUpTo(Filenames, MaxFiles)
    /\ flt_options \in OptionsUpTo(MaxPatterns)
    /\ flt_filtered = <<>>

FltIdle ==
    /\ flt_pc = "idle"
    /\ flt_files = <<>>
    /\ flt_options = <<>>
    /\ flt_filtered = <<>>

\* lint.py:299-311, up to the call of _run_linter
Filter ==
    /\ flt_pc = "filter"
    /\ flt_filtered' = FilterFiles(flt_files, flt_options)
    /\ flt_pc' = "filtered"
    /\ UNCHANGED <<flt_files, flt_options, notFlt>>

(***************************************************************************)
(* main, _run_linter and the tasks of its pool                             *)
(*                                                                         *)
(* The contents of a file are known by the fixes they still lack: the set  *)
(* of fixing linters that would change them.  A fixing linter returns the  *)
(* contents without its own name; the external tools may also fail.        *)
(***************************************************************************)
\* The files of the working tree that main is asked about.
TreeFiles == {"a.js", "a.py"}

Kinds == {"whitespace", "javascript", "python"}
Fixers == {"whitespace", "javascript"}
Contents == SUBSET Fixers

Range(seq) == {seq[i] : i \in 1..Len(seq)}

NoTasks == [filename \in {} |-> 0]
NoResult == [violation |-> "None", fixable |-> FALSE]

Returned(new_contents) ==
    [raised |-> FALSE, fixable |-> FALSE, new_contents |-> new_contents]
Raised(is_fixable) ==
    [raised |-> TRUE, fixable |-> is_fixable, new_contents |-> {}]

\* What linter.run_one(filename, contents) can do, linter by linter:
\*   WhitespaceLinter.run_one   returns the normalised contents
\*   JavaScriptLinter.run_one   returns the formatted contents, or raises
\*                              LinterException(...) (fixable by default)
\*                              when a tool fails
\*   PythonLinter.run_one       returns the contents as they are, or raises
\*                              LinterException(..., fixable=False)
RunOneOutcomes(kind, contents) ==
    CASE kind = "whitespace" -> {Returned(contents \ {"whitespace"})}
      [] kind = "javascript" -> {Returned(contents \ {"javascript"}), Raised(TRUE)}
      [] kind = "python" -> {Returned(contents), Raised(FALSE)}

\* git_tools.file_contents: the working tree with one commit, git show
\* commits[-1]:filename with two
file_contents(filename) ==
    IF num_commits = 1 THEN tree[filename] ELSE head[filename]

\* args.continuous_integration, with the environment variable forgotten
ContinuousIntegrationFlagOnly(flag, env) == flag

\* args.continuous_integration or os.environ.get('CONTINUOUS_INTEGRATION') == 'true'
ContinuousIntegration(flag, env) == flag \/ env

\* _report_linter_results writing whatever the value of |validate|
WritesAlways(validate) == TRUE

\* _report_linter_results: the file is written in the else branch of `if validate`
WritesFile(validate) == ~validate

\* The path every task writes, were the file name left out of the path
WritePathOfRoot(filename) == "a.js"

\* os.path.join(_ROOT, filename)
WritePath(filename) == filename

\* file_violations = local_violations
ViolationsLast(so_far, local_violations) == local_violations

\* file_violations |= local_violations
Violations(so_far, local_violations) == so_far \cup local_violations

\* fixable = local_fixable
AccumulateLast(so_far, local_fixable) == local_fixable

\* fixable |= local_fixable
Accumulate(so_far, local_fixable) == so_far \/ local_fixable

\* sys.stdin.closed or not sys.stdin.isatty()
NoOneToAsk(closed, tty) == closed \/ tty # "tty"

\* The names of a set of files in another order than the sorted one
Unsorted(S) == SelectSeq(<<"a.py", "a.js">>, LAMBDA filename : filename \in S)

\* git_tools._files_to_consider: the names of a set of files, sorted.  (An
\* explicit file list may repeat a name; _run_linter's dict keeps it once.)
FilesToConsider(S) == SelectSeq(<<"a.js", "a.py">>, LAMBDA filename : filename \in S)

Validate == tool = "validate"

CurrentLinter == linters_run[Len(linters_run)]

MainInit ==
    /\ main_pc = "start"
    /\ tool \in {"validate", "fix"}
    /\ continuous_integration \in BOOLEAN
    /\ env_ci \in BOOLEAN
    /\ num_commits \in {1, 2}
    /\ args_files \in {FilesToConsider(S) :
                         S \in {T \in SUBSET TreeFiles : Cardinality(T) <= MaxFiles}}
    /\ stdin_closed = FALSE
    /\ stdin_tty = "unread"
    /\ stdin_reads = 0
    /\ tree \in [TreeFiles -> Contents]
    /\ \A filename \in TreeFiles \ Range(args_files) : tree[filename] = {}
    /\ head = tree
    /\ linters_run = <<>>
    /\ tasks = NoTasks
    /\ toolchain_verified = FALSE
    /\ accesses = {}
    /\ writes = {}
    /\ file_violations = {}
    /\ fixable = FALSE
    /\ all_results = {}
    /\ aaf_result = "none"
    /\ log = <<>>

MainIdle ==
    /\ main_pc = "idle"
    /\ tool = "validate"
    /\ continuous_integration = FALSE
    /\ env_ci = FALSE
    /\ num_commits = 1
    /\ args_files = <<>>
    /\ stdin_closed = FALSE
    /\ stdin_tty = "unread"
    /\ stdin_reads = 0
    /\ tree = [filename \in TreeFiles |-> {}]
    /\ head = tree
    /\ linters_run = <<>>
    /\ tasks = NoTasks
    /\ toolchain_verified = FALSE
    /\ accesses = {}
    /\ writes = {}
    /\ file_violations = {}
    /\ fixable = FALSE
    /\ all_results = {}
    /\ aaf_result = "none"
    /\ log = <<>>

\* main after parse_arguments, up to the loop over the enabled linters
MainStart ==
    /\ main_pc = "start"
    /\ IF args_files = <<>>
       THEN /\ main_pc' = "returned"
            /\ UNCHANGED <<stdin_closed, log>>
       ELSE /\ main_pc' = "linters"
            /\ stdin_closed' = ContinuousIntegration(continuous_integration, env_ci)
            /\ log' = IF stdin_closed' THEN Append(log, "sys.stdin.close") ELSE log
    /\ UNCHANGED <<argVars, stdin_tty, stdin_reads, tree, poolVars, writes,
                   resultVars, aaf_result, notMain>>

\* One iteration of the loop, up to the submission of the tasks: the next
\* linter of config['lint'] and its options, the filter, and _run_linter
\* reading the contents of the filtered files into a dict.
MainNextLinter ==
    /\ main_pc = "linters"
    /\ Len(linters_run) < MaxLinters
    /\ \E kind \in Kinds \ Range(linters_run),
          options \in ConfigOptions :
            LET filtered_files == FilterFiles(args_files, options)
            IN  /\ linters_run' = Append(linters_run, kind)
                /\ tasks' = [filename \in Range(filtered_files) |->
                               [pc |-> IF kind = "javascript"
                                       THEN "check_toolchain" ELSE "run_one",
                                contents |-> file_contents(filename),
                                result |-> NoResult]]
    /\ accesses' = {}
    /\ main_pc' = "pool"
    /\ UNCHANGED <<argVars, stdinVars, tree, toolchain_verified, writes,
                   resultVars, aaf_result, log, notMain>>

Access(filename, loc, op) == [task |-> filename, loc |-> loc, op |-> op]

\* _lint_javascript: `if not _JAVASCRIPT_TOOLCHAIN_VERIFIED and not
\* git_tools.verify_toolchain(...): sys.exit(1)`
TaskCheckToolchain(filename) ==
    /\ main_pc = "pool"
    /\ filename \in DOMAIN tasks
    /\ tasks[filename].pc = "check_toolchain"
    /\ accesses' = accesses \cup
          {Access(filename, "_JAVASCRIPT_TOOLCHAIN_VERIFIED", "read")}
    /\ \E tools_found \in BOOLEAN :
          tasks' = [tasks EXCEPT ![filename].pc =
                       IF toolchain_verified \/ tools_found
                       THEN "set_verified" ELSE "exited"]
    /\ UNCHANGED <<main_pc, argVars, stdinVars, tree, linters_run,
                   toolchain_verified, writes, resultVars, aaf_result, log,
                   notMain>>

\* _lint_javascript: `_JAVASCRIPT_TOOLCHAIN_VERIFIED = True`
TaskSetVerified(filename) ==
    /\ main_pc = "pool"
    /\ filename \in DOMAIN tasks
    /\ tasks[filename].pc = "set_verified"
    /\ toolchain_verified' = TRUE
    /\ accesses' = accesses \cup
          {Access(filename, "_JAVASCRIPT_TOOLCHAIN_VERIFIED", "write")}
    /\ tasks' = [tasks EXCEPT ![filename].pc = "run_one"]
    /\ UNCHANGED <<main_pc, argVars, stdinVars, tree, linters_run, writes,
                   resultVars, aaf_result, log, notMain>>

\* _run_linter_one from linter.run_one on (for the JavaScript linter: from
\* the temporary file of _lint_javascript on), with _report_linter_results.
TaskRunLinterOne(filename) ==
    /\ main_pc = "pool"
    /\ filename \in DOMAIN tasks
    /\ tasks[filename].pc = "run_one"
    /\ \E outcome \in RunOneOutcomes(CurrentLinter, tasks[filename].contents) :
          LET contents == tasks[filename].contents
              new_contents == outcome.new_contents
          IN  IF outcome.raised
              THEN /\ tasks' = [tasks EXCEPT ![filename].pc = "done",
                                  ![filename].result =
                                      [violation |-> filename,
                                       fixable |-> outcome.fixable]]
                   /\ UNCHANGED <<tree, writes, accesses>>
              ELSE IF contents = new_contents
              THEN /\ tasks' = [tasks EXCEPT ![filename].pc = "done",
                                  ![filename].result = NoResult]
                   /\ UNCHANGED <<tree, writes, accesses>>
              ELSE /\ tasks' = [tasks EXCEPT ![filename].pc = "done",
                                  ![filename].result =
                                      [violation |-> filename, fixable |-> TRUE]]
                   /\ IF WritesFile(Validate)
                      THEN /\ tree' = [tree EXCEPT ![WritePath(filename)] = new_contents]
                           /\ writes' = writes \cup
                                 {[path |-> WritePath(filename),
                                   filename |-> filename,
                                   contents |-> contents,
                                   new_contents |-> new_contents]}
                           /\ accesses' = accesses \cup
                                 {Access(filename, WritePath(filename), "write")}
                      ELSE UNCHANGED <<tree, writes, accesses>>
    /\ UNCHANGED <<main_pc, argVars, stdinVars, linters_run, toolchain_verified,
                   resultVars, aaf_result, log, notMain>>

\* _run_linter once every future has a result: the results of the tasks, then
\* those of _run_linter_all (run_all of these linters returns [], [], []), and
\* main adding them to file_violations and fixable.  A task that left through
\* sys.exit(1) makes f.result() raise SystemExit in main.
RunLinterJoin ==
    /\ main_pc = "pool"
    /\ \A filename \in DOMAIN tasks : tasks[filename].pc \in {"done", "exited"}
    /\ IF \E filename \in DOMAIN tasks : tasks[filename].pc = "exited"
       THEN /\ main_pc' = "exit1"
            /\ log' = Append(log, "SystemExit")
            /\ UNCHANGED resultVars
       ELSE LET results == {tasks[filename].result : filename \in DOMAIN tasks}
            IN  /\ file_violations' = Violations(file_violations,
                      {r.violation : r \in {x \in results : x.violation # "None"}})
                /\ fixable' = Accumulate(fixable, \E r \in results : r.fixable)
                /\ all_results' = all_results \cup results
                /\ main_pc' = "linters"
                /\ UNCHANGED log
    /\ tasks' = NoTasks
    /\ accesses' = {}
    /\ UNCHANGED <<argVars, stdinVars, tree, linters_run, toolchain_verified,
                   writes, aaf_result, notMain>>

(***************************************************************************)
(* main after the loop, and git_tools.attempt_automatic_fixes              *)
(***************************************************************************)

\* What the user types at a prompt, stripped and lowered; "EOF" is the end of
\* the input (input() raises EOFError).
Responses == {"EOF", "", "y", "yes", "n", "no", "maybe"}

\* prompt, one turn of its loop (git_tools.py:149-160): "yes" and "no" are
\* what it returns, "again" sends it round the loop.
PromptAnswer(response, default) ==
    CASE response = "EOF" -> IF default THEN "yes" ELSE "no"
      [] response = "" -> IF default THEN "yes" ELSE "no"
      [] response \in {"y", "ye", "yes"} -> "yes"
      [] response \in {"n", "no"} -> "no"
      [] OTHER -> "again"

\* attempt_automatic_fixes returns |result| to main (lint.py:323-338): True
\* exits at once, False prints the command line that fixes the files; both
\* end in sys.exit(1).
\* Every return of attempt_automatic_fixes taken for return True
AafReturnTrue(result, said) ==
    /\ aaf_result' = "True"
    /\ log' = log \o said
    /\ main_pc' = "exit1"

AafReturn(result, said) ==
    /\ aaf_result' = (IF result THEN "True" ELSE "False")
    /\ log' = log \o said
                 \o (IF result THEN <<>> ELSE <<"print: Please run ... to fix them">>)
    /\ main_pc' = "exit1"

\* main after the loop (lint.py:318-338)
MainReport ==
    /\ main_pc = "linters"
    /\ IF file_violations = {}
       THEN main_pc' = "returned" /\ UNCHANGED log
       ELSE IF ~fixable
       THEN /\ main_pc' = "exit1"
            /\ log' = Append(log, "print: Errors cannot be automatically fixed.")
       ELSE IF Validate
       THEN /\ main_pc' = "attempt_automatic_fixes"
            /\ UNCHANGED log
       ELSE /\ main_pc' = "exit1"
            /\ log' = Append(log, "print: Files written to working directory.")
    /\ UNCHANGED <<argVars, stdinVars, tree, poolVars, writes, resultVars,
                   aaf_result, notMain>>

\* attempt_automatic_fixes, up to the first prompt; isatty() is asked only of
\* an open stdin
AafEnter ==
    /\ main_pc = "attempt_automatic_fixes"
    /\ \E tty \in {"tty", "notty"} :
          /\ stdin_tty' = IF stdin_closed THEN stdin_tty ELSE tty
          /\ IF NoOneToAsk(stdin_closed, stdin_tty')
             THEN AafReturn(FALSE, <<>>)
             ELSE /\ main_pc' = "prompt_fix"
                  /\ UNCHANGED <<aaf_result, log>>
    /\ UNCHANGED <<argVars, stdin_closed, stdin_reads, tree, poolVars, writes,
                   resultVars, notMain>>

\* prompt(question): without a user it returns the default and reads nothing;
\* otherwise one input() per turn of the loop.  |yes| and |no| say how the
\* caller goes on.
Prompt(question, yes, no) ==
    IF stdin_closed \/ stdin_tty # "tty"
    THEN /\ stdin_reads' = stdin_reads
         /\ log' = Append(log, question \o ": default")
         /\ main_pc' = yes
         /\ UNCHANGED aaf_result
    ELSE \E response \in Responses :
            LET answer == PromptAnswer(response, TRUE)
            IN  /\ stdin_reads < MaxReads
                /\ stdin_reads' = stdin_reads + 1
                /\ CASE answer = "again" ->
                            UNCHANGED <<main_pc, aaf_result, log>>
                     [] answer = "yes" ->
                            /\ main_pc' = yes
                            /\ log' = Append(log, question \o ": yes")
                            /\ UNCHANGED aaf_result
                     [] answer = "no" -> no

\* if not prompt('Want to automatically fix errors?'): return False
PromptFix ==
    /\ main_pc = "prompt_fix"
    /\ Prompt("Want to automatically fix errors?", "run_fix",
              AafReturn(FALSE, <<"Want to automatically fix errors?: no">>))
    /\ UNCHANGED <<argVars, stdin_closed, stdin_tty, tree, poolVars, writes,
                   resultVars, notMain>>

\* subprocess.call(_get_fix_args(scriptname, args, files)): another run of
\* the tool, in fix mode, on the files with violations; it leaves them as
\* they are or fixed.
AafRunFix ==
    /\ main_pc = "run_fix"
    /\ tree' \in {tree,
                  [filename \in TreeFiles |->
                      IF filename \in file_violations THEN {} ELSE tree[filename]]}
    /\ log' = Append(log, "fix")
    /\ main_pc' = "git_status"
    /\ UNCHANGED <<argVars, stdinVars, poolVars, writes, resultVars,
                   aaf_result, notMain>>

\* What `git status --porcelain` prints, stripped: nothing, or the files
\* with uncommitted changes.
GitStatusOutputs == {"", "M a.js"}

\* The change set of git status taken for non-empty whatever it is
HasChangesAlways(status) == TRUE

\* subprocess.check_output([..., 'status', '--porcelain']).strip() is truthy
HasChanges(status) == status # ""

\* if not subprocess.check_output(['/usr/bin/git', 'status',
\* '--porcelain']).strip(): return False
AafGitStatus ==
    /\ main_pc = "git_status"
    /\ \E status \in GitStatusOutputs :
          IF HasChanges(status)
          THEN /\ main_pc' = "prompt_commit"
               /\ log' = Append(log, "git status: " \o status)
               /\ UNCHANGED aaf_result
          ELSE AafReturn(FALSE, <<"git status: " \o status>>)
    /\ UNCHANGED <<argVars, stdinVars, tree, poolVars, writes, resultVars,
                   notMain>>

\* if not prompt('Want to also commit the fixes?'): print(...); return True
PromptCommit ==
    /\ main_pc = "prompt_commit"
    /\ Prompt("Want to also commit the fixes?", "commit",
              AafReturn(TRUE, <<"Want to also commit the fixes?: no",
                                "print: Files written to working directory.">>))
    /\ UNCHANGED <<argVars, stdin_closed, stdin_tty, tree, poolVars, writes,
                   resultVars, notMain>>

\* git commit --amend --no-edit when _is_single_commit_pushed, else git commit
\* -m 'Fixed ... lints'; check_call raises when git fails, and nothing
\* catches it.
AafCommit ==
    /\ main_pc = "commit"
    /\ \E first_is_parent \in BOOLEAN, committed \in BOOLEAN :
          LET amend == num_commits = 2 /\ first_is_parent
              command == IF amend THEN "git commit --amend" ELSE "git commit -m"
          IN  IF committed
              THEN AafReturn(TRUE, <<command>>)
              ELSE /\ main_pc' = "raised"
                   /\ log' = log \o <<command, "CalledProcessError">>
                   /\ UNCHANGED aaf_result
    /\ UNCHANGED <<argVars, stdinVars, tree, poolVars, writes, resultVars,
                   notMain>>

(***************************************************************************)
(* git_tools.parse_arguments                                               *)
(*                                                                         *)
(* The command line after the tool name: commits, '--' and file names.     *)
(***************************************************************************)
Arguments == {"--", "HEAD", "foo"}

\* The arguments of TestGitTools.test_get_explicit_file_list
TestArguments ==
    { <<"--", "HEAD", "foo">>, <<"HEAD", "--", "foo">>, <<"HEAD", "foo", "--">>,
      <<"HEAD">>, <<"foo">>, <<"HEAD", "foo">>, <<"HEAD", "foo", "HEAD">>,
      <<"HEAD", "HEAD", "foo">> }

\* args.index(value), counted from 1; 0 stands for ValueError
RECURSIVE IndexFrom(_, _, _)
IndexFrom(args, value, i) ==
    IF i > Len(args) THEN 0
    ELSE IF args[i] = value THEN i
    ELSE IndexFrom(args, value, i + 1)

\* The separator looked for from the end of the list
RECURSIVE LastIndexFrom(_, _, _)
LastIndexFrom(args, value, i) ==
    IF i < 1 THEN 0
    ELSE IF args[i] = value THEN i
    ELSE LastIndexFrom(args, value, i - 1)

IndexLast(args, value) == LastIndexFrom(args, value, Len(args))

Index(args, value) == IndexFrom(args, value, 1)

\* _get_explicit_file_list(args): <<files returned, args as it leaves them>>
get_explicit_file_list(args) ==
    LET idx == Index(args, "--")
    IN  IF idx = 0 THEN <<<<>>, args>>
        ELSE <<SubSeq(args, idx + 1, Len(args)), SubSeq(args, 1, idx - 1)>>

\* _validate_args with the test of the number of commits left out
validate_args_any_number(all_files, commits, files) ==
    ~(all_files /\ (commits # <<"HEAD">> \/ files # <<>>))

\* _validate_args(args, files)
validate_args(all_files, commits, files) ==
    IF all_files /\ (commits # <<"HEAD">> \/ files # <<>>) THEN FALSE
    ELSE IF Len(commits) \notin {1, 2} THEN FALSE
    ELSE TRUE

CmdInit ==
    /\ cmd_pc = "start"
    /\ cmd_given \in SeqsUpTo(Arguments, MaxArgs) \cup TestArguments
    /\ cmd_argv = cmd_given
    /\ cmd_all_files \in BOOLEAN
    /\ cmd_files = <<>>
    /\ cmd_commits = <<>>
    /\ cmd_args_files = <<>>
    /\ cmd_git = "none"
    /\ cmd_listing = {}

CmdIdle ==
    /\ cmd_pc = "idle"
    /\ cmd_given = <<>>
    /\ cmd_argv = <<>>
    /\ cmd_all_files = FALSE
    /\ cmd_files = <<>>
    /\ cmd_commits = <<>>
    /\ cmd_args_files = <<>>
    /\ cmd_git = "none"
    /\ cmd_listing = {}

\* files = _get_explicit_file_list(sys.argv)
CmdGetExplicitFileList ==
    /\ cmd_pc = "start"
    /\ cmd_files' = get_explicit_file_list(cmd_argv)[1]
    /\ cmd_argv' = get_explicit_file_list(cmd_argv)[2]
    /\ cmd_pc' = "listed"
    /\ UNCHANGED <<cmd_given, cmd_all_files, cmd_commits, cmd_args_files,
                   cmd_git, cmd_listing, notCmd>>

\* args = parser.parse_args(): the positional arguments left in sys.argv are
\* the commits (nargs='*', default ['HEAD'])
CmdParseArgs ==
    /\ cmd_pc = "listed"
    /\ cmd_commits' = IF cmd_argv = <<>> THEN <<"HEAD">> ELSE cmd_argv
    /\ cmd_pc' = "parsed"
    /\ UNCHANGED <<cmd_given, cmd_argv, cmd_all_files, cmd_files,
                   cmd_args_files, cmd_git, cmd_listing, notCmd>>

\* if not _validate_args(args, files): sys.exit(1)
CmdValidateArgs ==
    /\ cmd_pc = "parsed"
    /\ cmd_pc' = IF validate_args(cmd_all_files, cmd_commits, cmd_files)
                 THEN "validated" ELSE "exit1"
    /\ UNCHANGED <<cmd_given, cmd_argv, cmd_all_files, cmd_files, cmd_commits,
                   cmd_args_files, cmd_git, cmd_listing, notCmd>>

\* if files: args.files = files; else: args.files =
\* list(_files_to_consider(args)), which lists all files at HEAD or the
\* files changed between the commits
CmdFiles ==
    /\ cmd_pc = "validated"
    /\ IF cmd_files # <<>>
       THEN /\ cmd_args_files' = cmd_files
            /\ UNCHANGED <<cmd_git, cmd_listing>>
       ELSE \E result \in SUBSET TreeFiles :
               /\ cmd_git' = IF cmd_all_files THEN "ls-tree" ELSE "diff"
               /\ cmd_listing' = result
               /\ cmd_args_files' = FilesToConsider(result)
    /\ cmd_pc' = "done"
    /\ UNCHANGED <<cmd_given, cmd_argv, cmd_all_files, cmd_files, cmd_commits,
                   notCmd>>

(***************************************************************************)
(* The linters that run external tools: JavaScriptLinter (through          *)
(* _lint_javascript), PythonLinter and CustomLinter                        *)
(*                                                                         *)
(* Bytes are '#', '!', '\n' and X, every other byte.  What a tool does to   *)
(* the temporary file is not the repository's code: a run of a tool keeps  *)
(* the file, appends a byte to it, empties it, or fails (exits non-zero).  *)
(* A configured command is named by what it does.                          *)
(***************************************************************************)
ToolBytes == {"#", "!", "LF", "X"}

Behaviours == {"keep", "append", "clear", "fail"}

ToolKinds == {"javascript", "python", "custom"}

NoException == [type |-> "None", fixable |-> FALSE]

\* The inputs of test_javascript, test_python and test_command, byte classes
\* for bytes
TestToolContents ==
    { <<"X", "LF">>,
      <<"#", "!", "X", "LF", "X", "LF">>,
      <<"X", "LF", "X", "LF">> }

\* What a run of |command| may do
BehavioursOf(command) ==
    IF command \in Behaviours THEN {command} ELSE Behaviours

\* The temporary file after a command that did not fail
Effect(behaviour, tmp) ==
    CASE behaviour = "keep" -> tmp
      [] behaviour = "append" -> Append(tmp, "X")
      [] behaviour = "clear" -> <<>>

\* contents.startswith(b'#!')
StartsWithShebang(contents) ==
    Len(contents) >= 2 /\ contents[1] = "#" /\ contents[2] = "!"

\* contents.split(b'\n', 1): the parts around the first newline, one part
\* only when there is none
Split(contents) ==
    LET i == IndexFrom(contents, "LF", 1)
    IN  IF i = 0 THEN <<contents>>
        ELSE <<SubSeq(contents, 1, i - 1), SubSeq(contents, i + 1, Len(contents))>>

\* The commands of a linter, in the order it runs them
CommandsOf(kind, options) ==
    CASE kind = "javascript" -> <<"fixjsstyle", "clang-format">> \o options
      [] kind = "python" -> <<"pep8", "pylint">>
      [] kind = "custom" -> options

\* The exception run_one raises when a command fails:
\*   JavaScriptLinter  LinterException(...), fixable by default
\*   PythonLinter      LinterException(..., fixable=False)
\*   CustomLinter      LinterException(..., fixable=False)
Exception(kind) ==
    [type |-> "LinterException", fixable |-> (kind = "javascript")]

\* run_one returning what the tools left in the temporary file, whatever
\* the linter
ResultOfTmp(kind, contents, header, tmp) ==
    <<header \o tmp,
      CASE kind = "javascript" -> <<"javascript">>
        [] kind = "python" -> <<>>
        [] kind = "custom" -> <<"custom">> >>

\* What run_one returns once every command succeeded:
\*   JavaScriptLinter  header + js_in.read(), ['javascript']
\*   PythonLinter      contents, []
\*   CustomLinter      tmp_in.read(), ['custom']
Result(kind, contents, header, tmp) ==
    CASE kind = "javascript" -> <<header \o tmp, <<"javascript">> >>
      [] kind = "python" -> <<contents, <<>> >>
      [] kind = "custom" -> <<tmp, <<"custom">> >>

RunInit ==
    /\ run_pc = "call"
    /\ run_kind \in ToolKinds
    /\ run_options \in IF run_kind = "python" THEN {<<>>}
                       ELSE SeqsUpTo(Behaviours, MaxCommands)
    /\ run_contents \in SeqsUpTo(ToolBytes, MaxToolLen) \cup TestToolContents
    /\ run_header = <<>>
    /\ run_written = <<>>
    /\ run_tmp = <<>>
    /\ run_commands = <<>>
    /\ run_ran = <<>>
    /\ run_result = <<>>
    /\ run_error = NoException

RunIdle ==
    /\ run_pc = "idle"
    /\ run_kind = "custom"
    /\ run_options = <<>>
    /\ run_contents = <<>>
    /\ run_header = <<>>
    /\ run_written = <<>>
    /\ run_tmp = <<>>
    /\ run_commands = <<>>
    /\ run_ran = <<>>
    /\ run_result = <<>>
    /\ run_error = NoException

\* run_one up to its first command: the temporary file is written.
\* _lint_javascript first takes the shebang line off the contents;
\* unpacking the split raises ValueError when it gives one part only.
RunOneStart ==
    /\ run_pc = "call"
    /\ IF run_kind = "javascript" /\ StartsWithShebang(run_contents)
       THEN LET parts == Split(run_contents)
            IN  IF Len(parts) # 2
                THEN /\ run_pc' = "raised"
                     /\ run_error' = [type |-> "ValueError", fixable |-> FALSE]
                     /\ UNCHANGED <<run_header, run_written, run_tmp,
                                    run_commands>>
                ELSE /\ run_header' = Append(parts[1], "LF")
                     /\ run_tmp' = parts[2]
                     /\ run_written' = run_tmp'
                     /\ run_commands' = CommandsOf(run_kind, run_options)
                     /\ run_pc' = "running"
                     /\ UNCHANGED run_error
       ELSE /\ run_tmp' = run_contents
            /\ run_written' = run_tmp'
            /\ run_commands' = CommandsOf(run_kind, run_options)
            /\ run_pc' = "running"
            /\ UNCHANGED <<run_header, run_error>>
    /\ UNCHANGED <<run_kind, run_options, run_contents, run_ran, run_result,
                   notRun>>

\* subprocess.check_output(args, ...) of the next command: a command that
\* fails raises CalledProcessError, which run_one turns into a
\* LinterException; no later command runs.
RunOneCommand ==
    /\ run_pc = "running"
    /\ run_commands # <<>>
    /\ \E behaviour \in BehavioursOf(Head(run_commands)) :
          /\ run_ran' = Append(run_ran, <<Head(run_commands), behaviour>>)
          /\ IF behaviour = "fail"
             THEN /\ run_pc' = "raised"
                  /\ run_error' = Exception(run_kind)
                  /\ UNCHANGED <<run_tmp, run_commands>>
             ELSE /\ run_tmp' = Effect(behaviour, run_tmp)
                  /\ run_commands' = Tail(run_commands)
                  /\ UNCHANGED <<run_pc, run_error>>
    /\ UNCHANGED <<run_kind, run_options, run_contents, run_header,
                   run_written, run_result, notRun>>

\* run_one once every command succeeded
RunOneReturn ==
    /\ run_pc = "running"
    /\ run_commands = <<>>
    /\ run_result' = Result(run_kind, run_contents, run_header, run_tmp)
    /\ run_pc' = "returned"
    /\ UNCHANGED <<run_kind, run_options, run_contents, run_header,
                   run_written, run_tmp, run_commands, run_ran, run_error,
                   notRun>>

(***************************************************************************)
(* I18nLinter.run_all and lint._run_linter_all                             *)
(*                                                                         *)
(* The strings of the .lang files are not spelled out: what is generated   *)
(* from them for a path is one value, Generate(path), and the file the     *)
(* callback reads for the path holds those contents, other valid contents  *)
(* or bytes that do not decode.  Contents are bytes, generated contents    *)
(* are text: Encode and Decode go from one to the other.                   *)
(***************************************************************************)
LANGS == <<"en", "es", "pt", "pseudo">>

JS_TEMPLATES_PATH == "frontend/www/js/omegaup"
TEMPLATES_PATH == "frontend/templates"

JsPath(language) == JS_TEMPLATES_PATH \o "/lang." \o language \o ".js"
JsonPath(language) == JS_TEMPLATES_PATH \o "/lang." \o language \o ".json"
PseudoPath == TEMPLATES_PATH \o "/pseudo.lang"

\* The calls of _generate_content_entry, in the order _generate_new_contents
\* makes them: two for each language, then the one for pseudo.lang.
NumEntries == Len(LANGS) + Len(LANGS) + 1

EntryPath(k) ==
    IF k = NumEntries THEN PseudoPath
    ELSE IF k % 2 = 1 THEN JsPath(LANGS[(k + 1) \div 2])
    ELSE JsonPath(LANGS[k \div 2])

EntryPaths == [k \in 1..NumEntries |-> EntryPath(k)]

\* new_content of a call: _generate_javascript, _generate_json or
\* _generate_pseudo of the strings, a str.
Generate(path) == <<"generated", path>>

\* str.encode('utf-8') and bytes.decode('utf-8'); the bytes of a file are
\* the generated text of its path, other text, or bytes that do not
\* decode.
Encode(text) == [bytes |-> text]
Decode(contents) == contents.bytes
Decodes(contents) == contents.bytes[1] # "invalid"

NoEntries == [path \in {} |-> <<>>]

\* dict[path] = value
Put(dict, path, value) == (path :> value) @@ dict

\* The keys of a dict in insertion order: the entries are inserted in the
\* order of the calls.
Keys(dict) == SelectSeq(EntryPaths, LAMBDA path : path \in DOMAIN dict)

\* _generate_content_entry(new_contents, original_contents, path,
\* new_content, contents_callback), where original_content is what the
\* callback read: the two dicts as the call leaves them.
generate_content_entry(new_contents, original_contents, path, new_content, original_content) ==
    IF Decode(original_content) # new_content
    THEN <<Put(new_contents, path, Encode(new_content)),
           Put(original_contents, path, original_content)>>
    ELSE <<new_contents, original_contents>>

I18nFiles == {<<>>, <<TEMPLATES_PATH \o "/en.lang">>}

I18nInit ==
    \E validate \in BOOLEAN, files \in I18nFiles,
       disk \in [Range(EntryPaths) -> {"generated", "stale", "invalid"}] :
        /\ Cardinality({path \in Range(EntryPaths) :
                            disk[path] = "invalid"}) <= MaxInvalid
        /\ i18n = [pc |-> "call",
                   validate |-> validate,
                   files |-> files,
                   disk |-> [path \in Range(EntryPaths) |->
                                [bytes |-> <<disk[path], path>>]],
                   tree |-> [path \in Range(EntryPaths) |->
                                [bytes |-> <<disk[path], path>>]],
                   idx |-> 0,
                   new_contents |-> NoEntries,
                   original_contents |-> NoEntries,
                   exception |-> NoException,
                   reported |-> 0,
                   result |-> <<>>]

\* Outside SpecI18n the linter is not run: the record holds its pc only.
I18nIdle == i18n = [pc |-> "idle"]

\* run_all calls _get_translated_strings, which raises a LinterException
\* that cannot be fixed for a line that does not parse, for entries out of
\* order and for entries a language lacks.
I18nGetTranslatedStrings ==
    /\ i18n.pc = "call"
    /\ \E accepted \in BOOLEAN :
          i18n' = IF accepted
                  THEN [i18n EXCEPT !.pc = "generating"]
                  ELSE [i18n EXCEPT !.pc = "raised",
                                    !.exception =
                                        [type |-> "LinterException",
                                         fixable |-> FALSE]]
    /\ UNCHANGED notI18n

\* One call of _generate_content_entry in _generate_new_contents.  The
\* call for pseudo.lang passes original_contents where the others pass
\* new_contents, and new_contents where they pass original_contents.
I18nGenerateContentEntry ==
    /\ i18n.pc = "generating"
    /\ i18n.idx < NumEntries
    /\ LET path == EntryPath(i18n.idx + 1)
           original_content == i18n.disk[path]
           dicts == IF path = PseudoPath
                    THEN generate_content_entry(
                             i18n.original_contents, i18n.new_contents,
                             path, Generate(path), original_content)
                    ELSE generate_content_entry(
                             i18n.new_contents, i18n.original_contents,
                             path, Generate(path), original_content)
       IN  i18n' = IF ~Decodes(original_content)
                   THEN [i18n EXCEPT !.pc = "raised",
                                     !.exception =
                                         [type |-> "UnicodeDecodeError",
                                          fixable |-> FALSE]]
                   ELSE IF path = PseudoPath
                   THEN [i18n EXCEPT !.idx = @ + 1,
                                     !.original_contents = dicts[1],
                                     !.new_contents = dicts[2]]
                   ELSE [i18n EXCEPT !.idx = @ + 1,
                                     !.new_contents = dicts[1],
                                     !.original_contents = dicts[2]]
    /\ UNCHANGED notI18n

\* run_all returns new_contents, original_contents and ['i18n'].
I18nRunAllReturn ==
    /\ i18n.pc = "generating"
    /\ i18n.idx = NumEntries
    /\ i18n' = [i18n EXCEPT !.pc = "returned"]
    /\ UNCHANGED notI18n

\* _run_linter_all catches a LinterException and returns every file with
\* the exception's fixable.
RunLinterAllExcept ==
    /\ i18n.pc = "raised"
    /\ i18n.exception.type = "LinterException"
    /\ i18n' = [i18n EXCEPT
                   !.pc = "done",
                   !.result = [k \in 1..Len(i18n.files) |->
                                  [violation |-> i18n.files[k],
                                   fixable |-> i18n.exception.fixable]]]
    /\ UNCHANGED notI18n

\* One turn of the loop of _run_linter_all over new_file_contents:
\* _report_linter_results writes the entry to the file unless validating.
RunLinterAllReport ==
    /\ i18n.pc = "returned"
    /\ i18n.reported < Len(Keys(i18n.new_contents))
    /\ LET filename == Keys(i18n.new_contents)[i18n.reported + 1]
       IN  i18n' =
             IF filename \notin DOMAIN i18n.original_contents
             THEN [i18n EXCEPT !.pc = "raised",
                               !.exception = [type |-> "KeyError",
                                              fixable |-> FALSE]]
             ELSE IF i18n.original_contents[filename]
                         = i18n.new_contents[filename]
             THEN [i18n EXCEPT !.reported = @ + 1,
                               !.result = Append(@, NoResult)]
             ELSE [i18n EXCEPT
                      !.reported = @ + 1,
                      !.tree = IF WritesFile(i18n.validate)
                               THEN Put(@, filename,
                                        i18n.new_contents[filename])
                               ELSE @,
                      !.result = Append(@, [violation |-> filename,
                                            fixable |-> TRUE])]
    /\ UNCHANGED notI18n

RunLinterAllReturn ==
    /\ i18n.pc = "returned"
    /\ i18n.reported = Len(Keys(i18n.new_contents))
    /\ i18n' = [i18n EXCEPT !.pc = "done"]
    /\ UNCHANGED notI18n

(***************************************************************************)
(* git_tools._get_changed_files                                            *)
(*                                                                         *)
(* The output of git is a list of records; a record is a header, that      *)
(* GIT_DIFF_TREE_PATTERN matches, and one path, or two when the status is  *)
(* a copy or a rename.  Values keep their Python type: bytes and str with  *)
(* the same text are different values.                                     *)
(***************************************************************************)
BytesOf(text) == <<"bytes", text>>
StrOf(text) == <<"str", text>>
None == <<"None", "">>

GIT_NULL_HASH == "0000000000000000000000000000000000000000"
GIT_DIRECTORY_ENTRY_MODE == BytesOf("160000")

\* The status letters of GIT_DIFF_TREE_PATTERN and two file modes.
Statuses == {"A", "C", "D", "M", "R", "T", "U", "X"}
Filemodes == {"100644", "160000"}

DiffRecords ==
    [filemode : Filemodes, status : Statuses, src : {"a.py"}, dest : {"b.py"}]

TwoPaths(record) == record.status \in {"C", "R"}

HeaderToken(record) == BytesOf(<<"header", record.filemode, record.status>>)
PathToken(name) == BytesOf(<<"path", name>>)
EmptyToken == BytesOf(<<"">>)

RecordTokens(record) ==
    <<HeaderToken(record), PathToken(record.src)>>
        \o (IF TwoPaths(record) THEN <<PathToken(record.dest)>> ELSE <<>>)

RECURSIVE OutputTokens(_)
OutputTokens(output) ==
    IF output = <<>> THEN <<>>
    ELSE RecordTokens(Head(output)) \o OutputTokens(Tail(output))

\* subprocess.check_output(cmd).split(b'\x00'): git ends every token with a
\* NUL, which leaves an empty token at the end; the last NUL may be absent.
SplitNul(output, terminated) ==
    IF terminated \/ output = <<>>
    THEN OutputTokens(output) \o <<EmptyToken>>
    ELSE OutputTokens(output)

\* GIT_DIFF_TREE_PATTERN.match(token) and match.groups(): the groups of a
\* bytes pattern are bytes.
MatchDiffTree(token) == token[2][1] = "header"
Groups(token) == <<BytesOf(token[2][2]), BytesOf(token[2][3])>>

\* status in ('C', 'R')
IsCopyOrRename(status) == status \in {StrOf("C"), StrOf("R")}

\* if dest: a path is taken for dest unless it is None or empty.
Truthy(value) == value # None /\ value # EmptyToken

CommitLists == {<<"HEAD">>, <<"c1", "c2">>, <<"c1", GIT_NULL_HASH>>}

ChangedInit ==
    \E commits \in CommitLists, output \in SeqsUpTo(DiffRecords, MaxRecords),
       terminated \in BOOLEAN :
        diff = [pc |-> "call", commits |-> commits, output |-> output,
                   terminated |-> terminated, tokens |-> <<>>, idx |-> 0,
                   visited |-> <<>>, yielded |-> <<>>, error |-> "None"]

\* Outside SpecChanged the function is not called: the record holds its pc only.
ChangedIdle == diff = [pc |-> "idle"]

\* Up to the loop: with two commits of which the second is the null hash
\* nothing is run and nothing is yielded; otherwise git runs and its output
\* is split.
ChangedStart ==
    /\ diff.pc = "call"
    /\ diff' =
          IF Len(diff.commits) # 1
                /\ diff.commits[Len(diff.commits)] = GIT_NULL_HASH
          THEN [diff EXCEPT !.pc = "done"]
          ELSE [diff EXCEPT
                   !.pc = "loop",
                   !.tokens = SplitNul(diff.output, diff.terminated)]
    /\ UNCHANGED notChanged

\* One turn of the while loop.  idx counts from 0 as in the code:
\* tokens[idx] of the code is tokens[idx + 1] here.
ChangedLoop ==
    /\ diff.pc = "loop"
    /\ diff.idx < Len(diff.tokens) - 1
    /\ LET idx == diff.idx
           match == MatchDiffTree(diff.tokens[idx + 1])
           filemode == Groups(diff.tokens[idx + 1])[1]
           status == Groups(diff.tokens[idx + 1])[2]
           src == diff.tokens[idx + 2]
           two == IsCopyOrRename(status)
           dest == IF two THEN diff.tokens[idx + 3] ELSE None
           visited == Append(diff.visited, idx)
       IN  diff' =
             IF ~match
             THEN [diff EXCEPT !.pc = "raised",
                                  !.visited = visited,
                                  !.error = "AssertionError"]
             ELSE IF two /\ idx + 3 > Len(diff.tokens)
             THEN [diff EXCEPT !.pc = "raised",
                                  !.visited = visited,
                                  !.error = "IndexError"]
             ELSE [diff EXCEPT
                      !.idx = IF two THEN idx + 3 ELSE idx + 2,
                      !.visited = visited,
                      !.yielded =
                          IF filemode = GIT_DIRECTORY_ENTRY_MODE THEN @
                          ELSE IF Truthy(dest) THEN Append(@, dest)
                          ELSE Append(@, src)]
    /\ UNCHANGED notChanged

ChangedReturn ==
    /\ diff.pc = "loop"
    /\ ~(diff.idx < Len(diff.tokens) - 1)
    /\ diff' = [diff EXCEPT !.pc = "done"]
    /\ UNCHANGED notChanged

(***************************************************************************)
(* The commit of attempt_automatic_fixes                                   *)
(*                                                                         *)
(* attempt_automatic_fixes from the point where the user asked for the     *)
(* fixes to be committed.  The history is three commits in a line; a       *)
(* commit is named on the command line by its full hash or by a revision   *)
(* name that git resolves.                                                 *)
(***************************************************************************)
\* Full hashes, oldest first, and the names git resolves to them.
Hashes == <<"a1a1a1", "b2b2b2", "c3c3c3">>
Revisions == Range(Hashes) \cup {"HEAD", "HEAD~1"}

Resolve(revision) ==
    CASE revision = "HEAD" -> Hashes[Len(Hashes)]
      [] revision = "HEAD~1" -> Hashes[Len(Hashes) - 1]
      [] OTHER -> revision

\* The parent of a commit, "" for the first commit of the history, which
\* has none.
Parent(hash) ==
    LET k == CHOOSE i \in 1..Len(Hashes) : Hashes[i] = hash
    IN  IF k = 1 THEN "" ELSE Hashes[k - 1]

\* git rev-parse <revision>^, stripped: the full hash of the parent; git
\* fails when there is none.
RevParseParent(revision) == Parent(Resolve(revision))

\* _is_single_commit_pushed, once rev-parse gave its output.
IsSingleCommitPushed(commits) ==
    /\ Len(commits) = 2
    /\ commits[1] = RevParseParent(commits[2])

\* if files: neither None nor empty
FilesGiven(files) == files # None /\ files # <<>>

\* commit_params of either branch.
CommitParams(amend, scriptname, files) ==
    (IF amend
     THEN <<"/usr/bin/git", "commit", "--amend", "--no-edit">>
     ELSE <<"/usr/bin/git", "commit", "-m",
            "Fixed " \o scriptname \o " lints">>)
        \o (IF FilesGiven(files) THEN <<"--">> \o files ELSE <<"--all">>)

CommitFiles == {None, <<>>, <<"a.js">>, <<"a.js", "a.py">>}

CommitInit ==
    \E commits \in SeqsUpTo(Revisions, 2) \ {<<>>}, files \in CommitFiles :
        commit = [pc |-> "prompted", scriptname |-> "lint.py",
                  commits |-> commits, files |-> files, amend |-> FALSE,
                  command |-> <<>>, printed |-> "", result |-> "none"]

\* Outside SpecCommit nothing is committed: the record holds its pc only.
CommitIdle == commit = [pc |-> "idle"]

\* if _is_single_commit_pushed(args): rev-parse runs only with two commits,
\* and its failure leaves through CalledProcessError.
CommitIsSingleCommitPushed ==
    /\ commit.pc = "prompted"
    /\ commit' =
          IF Len(commit.commits) = 2
                /\ RevParseParent(commit.commits[2]) = ""
          THEN [commit EXCEPT !.pc = "raised"]
          ELSE [commit EXCEPT !.pc = "commit",
                              !.amend = IsSingleCommitPushed(commit.commits)]
    /\ UNCHANGED notCommit

\* subprocess.check_call(commit_params), then the message and return True;
\* check_call raises when git fails.
CommitCheckCall ==
    /\ commit.pc = "commit"
    /\ \E committed \in BOOLEAN :
          commit' =
            [commit EXCEPT
               !.command = CommitParams(commit.amend, commit.scriptname,
                                        commit.files),
               !.pc = IF committed THEN "returned" ELSE "raised",
               !.printed = IF ~committed THEN ""
                           ELSE IF commit.amend
                           THEN "Previous commit reused, ready to upload."
                           ELSE "Committed fixes, ready to upload.",
               !.result = IF committed THEN "True" ELSE "none"]
    /\ UNCHANGED notCommit

(***************************************************************************)
(* Specifications                                                          *)
(***************************************************************************)
Init == MainInit /\ WsIdle /\ VueIdle /\ FltIdle /\ CmdIdle /\ RunIdle /\ I18nIdle /\ ChangedIdle /\ CommitIdle
Next ==
    \/ MainStart
    \/ MainNextLinter
    \/ \E filename \in TreeFiles : TaskCheckToolchain(filename)
    \/ \E filename \in TreeFiles : TaskSetVerified(filename)
    \/ \E filename \in TreeFiles : TaskRunLinterOne(filename)
    \/ RunLinterJoin
    \/ MainReport
    \/ AafEnter
    \/ PromptFix
    \/ AafRunFix
    \/ AafGitStatus
    \/ PromptCommit
    \/ AafCommit
Spec == Init /\ [][Next]_vars

InitFilter == FltInit /\ WsIdle /\ VueIdle /\ MainIdle /\ CmdIdle /\ RunIdle /\ I18nIdle /\ ChangedIdle /\ CommitIdle
NextFilter == Filter
SpecFilter == InitFilter /\ [][NextFilter]_vars

InitWS == WsInit /\ VueIdle /\ FltIdle /\ MainIdle /\ CmdIdle /\ RunIdle /\ I18nIdle /\ ChangedIdle /\ CommitIdle
NextWS == WsRunOne \/ WsRunAgain
SpecWS == InitWS /\ [][NextWS]_vars

\* One call of run_one and no second one.
SpecWSOnce == InitWS /\ [][WsRunOne]_vars

InitVue == VueInit /\ WsIdle /\ FltIdle /\ MainIdle /\ CmdIdle /\ RunIdle /\ I18nIdle /\ ChangedIdle /\ CommitIdle
NextVue ==
    \/ VueParse
    \/ HandleStartTag
    \/ HandleEndTag
    \/ HandleComment
    \/ HandleData
    \/ VueParseReturn
SpecVue == InitVue /\ [][NextVue]_vars

InitArgs == CmdInit /\ WsIdle /\ VueIdle /\ FltIdle /\ MainIdle /\ RunIdle /\ I18nIdle /\ ChangedIdle /\ CommitIdle
NextArgs ==
    \/ CmdGetExplicitFileList
    \/ CmdParseArgs
    \/ CmdValidateArgs
    \/ CmdFiles
SpecArgs == InitArgs /\ [][NextArgs]_vars

InitTools == RunInit /\ WsIdle /\ VueIdle /\ FltIdle /\ MainIdle /\ CmdIdle /\ I18nIdle /\ ChangedIdle /\ CommitIdle
NextTools ==
    \/ RunOneStart
    \/ RunOneCommand
    \/ RunOneReturn
SpecTools == InitTools /\ [][NextTools]_vars

InitI18n == I18nInit /\ WsIdle /\ VueIdle /\ FltIdle /\ MainIdle /\ CmdIdle /\ RunIdle /\ ChangedIdle /\ CommitIdle
NextI18n ==
    \/ I18nGetTranslatedStrings
    \/ I18nGenerateContentEntry
    \/ I18nRunAllReturn
    \/ RunLinterAllExcept
    \/ RunLinterAllReport
    \/ RunLinterAllReturn
SpecI18n == InitI18n /\ [][NextI18n]_vars

InitChanged == ChangedInit /\ WsIdle /\ VueIdle /\ FltIdle /\ MainIdle /\ CmdIdle /\ RunIdle /\ I18nIdle /\ CommitIdle
NextChanged ==
    \/ ChangedStart
    \/ ChangedLoop
    \/ ChangedReturn
SpecChanged == InitChanged /\ [][NextChanged]_vars

InitCommit == CommitInit /\ WsIdle /\ VueIdle /\ FltIdle /\ MainIdle /\ CmdIdle /\ RunIdle /\ I18nIdle /\ ChangedIdle
NextCommit ==
    \/ CommitIsSingleCommitPushed
    \/ CommitCheckCall
SpecCommit == InitCommit /\ [][NextCommit]_vars

(***************************************************************************)
(* Claims: WhitespaceLinter                                                *)
(***************************************************************************)

\* C1: whitespace normalisation is idempotent: run_one applied to the contents
\* a first run_one returned gives those contents back, with no violation.
C1_Idempotent ==
    ws_pc = "rerun" => ws_result = <<ws_first[1], <<>>>>

\* The contents of each step of the fixed order, from the input on.
StepContents(c0) ==
    LET c1 == Sub(1, c0)
        c2 == Sub(2, c1)
        c3 == Sub(3, c2)
        c4 == Sub(4, c3)
        c5 == Sub(5, c4)
    IN  <<c0, c1, c2, c3, c4, c5>>

\* C9: the five substitutions run in the fixed order, each on the output of
\* the one before; the violations are the names of those that changed the
\* contents at their step, in that order; contents that no pattern matches
\* come back unchanged with no violation.
C9_FixedOrder ==
    ws_pc = "returned" =>
        LET c == StepContents(ws_contents)
            changed == {k \in 1..5 : c[k + 1] # c[k]}
            names == SelectSeq(VALIDATIONS,
                        LAMBDA n : \E k \in changed : VALIDATIONS[k] = n)
        IN  /\ ws_result[1] = c[6]
            /\ ws_result[2] = names
            /\ \A k \in 1..5 : (k \in changed) <=> Search(k, c[k])
            /\ (\A k \in 1..5 : ~Search(k, ws_contents))
                  => ws_result = <<ws_contents, <<>>>>

\* The last case of test_whitespace: all five substitutions change the
\* contents and are reported in list order.
C9_Witness ==
    /\ ws_pc = "returned"
    /\ ws_contents = <<"X", "SP", "LB", "CR", "LF", "LF", "LF", "X", "SP",
                       "LF", "LF", "RB", "LF">>
    /\ ws_result = << <<"X", "SP", "LB", "LF", "X", "LF", "RB", "LF">>,
                      VALIDATIONS >>

(***************************************************************************)
(* Claims: VueHTMLParser                                                   *)
(***************************************************************************)

\* C2: the tag stack balances: when parse accepts a document, the stack of
\* open tags is empty at the end of the input and no open tag was dropped
\* from the stack without an end tag of its own.
C2_StackBalances ==
    vue_pc = "accepted" => (vue_stack = <<>> /\ vue_dropped = <<>>)

\* The position of construct i of a document, counted from the text alone:
\* the line is one more than the newlines before it, the column the length of
\* what follows the last of them.
LineOf(doc, i) ==
    1 + Cardinality({j \in 1..(i - 1) : doc[j].kind = "data"})

RECURSIVE ColOf(_, _)
ColOf(doc, i) ==
    IF i = 1 \/ doc[i - 1].kind = "data" THEN 0
    ELSE ColOf(doc, i - 1) + TextLen(doc[i - 1])

\* C10: an end tag whose name matches no start tag open on the stack makes
\* run_one raise 'Unclosed tag at line L, column C' with the position of that
\* end tag, and no sections are returned.
C10_UnclosedTag ==
    [][ ( /\ Feeding("end")
          /\ \A j \in 1..Len(vue_stack) : vue_stack[j].tag # vue_doc[vue_idx].tag )
        => ( /\ vue_pc' = "raised"
             /\ vue_error' = [message |-> "Unclosed tag",
                              line |-> LineOf(vue_doc, vue_idx),
                              col |-> ColOf(vue_doc, vue_idx),
                              fixable |-> TRUE]
             /\ vue_sections' = <<>> ) ]_vars

\* '<template>', newline, '<b></span>': Unclosed tag at line 2, column 3.
C10_Witness ==
    /\ vue_pc = "raised"
    /\ Len(vue_doc) = 7
    /\ SubSeq(vue_doc, 1, 4) =
          <<StartTag("template"), Newline, StartTag("b"), EndTag("span")>>
    /\ vue_idx = 4
    /\ vue_error = [message |-> "Unclosed tag", line |-> 2, col |-> 3,
                    fixable |-> TRUE]
    /\ vue_sections = <<>>
(***************************************************************************)
(* The worker tasks of one pool                                            *)
(***************************************************************************)
Conflict(a, b) ==
    /\ a.task # b.task
    /\ a.loc = b.loc
    /\ "write" \in {a.op, b.op}

\* C3, as the specification states it: the tasks of one pool share no mutable
\* state, that is, nothing is written by one task and read or written by
\* another.
C3_NoSharedState == \A a, b \in accesses : ~Conflict(a, b)

\* C3, as the code has it: the one thing written by a task and read or
\* written by another is the flag _JAVASCRIPT_TOOLCHAIN_VERIFIED, which is
\* set once a task wrote it, whatever the interleaving; the files the tasks
\* write are each task's own.
C3_SharedFlagOnly ==
    /\ \A a, b \in accesses :
          Conflict(a, b) => a.loc = "_JAVASCRIPT_TOOLCHAIN_VERIFIED"
    /\ \A a \in accesses :
          (a.loc = "_JAVASCRIPT_TOOLCHAIN_VERIFIED" /\ a.op = "write")
              => toolchain_verified
    /\ \A a \in accesses :
          a.loc # "_JAVASCRIPT_TOOLCHAIN_VERIFIED"
              => (a.op = "write" /\ a.loc = a.task)

\* Two tasks of a pool in fix mode: the one wrote the flag the other read,
\* and both wrote their files.
C3_Witness ==
    /\ main_pc = "pool"
    /\ \E a, b \in accesses :
          /\ Conflict(a, b)
          /\ a.loc = "_JAVASCRIPT_TOOLCHAIN_VERIFIED"
          /\ b.op = "read"
    /\ \A filename \in TreeFiles :
          Access(filename, filename, "write") \in accesses

(***************************************************************************)
(* The filter                                                              *)
(***************************************************************************)
InList(options, key, filename) ==
    /\ key \in DOMAIN options
    /\ \E i \in 1..Len(options[key]) : Match(options[key][i], filename)

\* C4: the files passed to a linter are the candidate files that match at
\* least one regex of its allowlist and no regex of its denylist, in the
\* order of the candidate list; without an allowlist, or with an empty one,
\* the linter gets no file.
C4_AllowDeny ==
    flt_pc = "filtered" =>
        /\ flt_filtered =
              SelectSeq(flt_files, LAMBDA filename :
                  /\ InList(flt_options, "allowlist", filename)
                  /\ ~InList(flt_options, "denylist", filename))
        /\ ( \/ "allowlist" \notin DOMAIN flt_options
             \/ flt_options["allowlist"] = <<>> ) => flt_filtered = <<>>

\* Of two candidate files, the allowlist takes both and the denylist, of two
\* patterns, drops the second: the first alone is passed on.
C4_Witness ==
    /\ flt_pc = "filtered"
    /\ Len(flt_files) = 2
    /\ DOMAIN flt_options = {"allowlist", "denylist"}
    /\ Len(flt_options["denylist"]) = 2
    /\ \A i \in 1..2 : InList(flt_options, "allowlist", flt_files[i])
    /\ flt_filtered = <<flt_files[1]>>

(***************************************************************************)
(* main                                                                    *)
(***************************************************************************)
\* C5: under 'validate' the linting run writes no file of the working tree
\* (only the fix command that attempt_automatic_fixes starts does); under
\* 'fix' a task overwrites a file only when the linter returned contents
\* that differ from the contents read for it, the file is the task's own,
\* and what it holds afterwards is those new contents.
C5_WritesOnlyChanged ==
    [][ /\ (tool = "validate" /\ main_pc # "run_fix")
            => (tree' = tree /\ writes' = {})
        /\ tree' # tree => (main_pc = "run_fix" \/ writes' # writes)
        /\ \A w \in writes' \ writes :
              /\ tool = "fix"
              /\ w.filename \in DOMAIN tasks
              /\ tasks[w.filename].pc = "run_one"
              /\ w.contents = tasks[w.filename].contents
              /\ w.new_contents # w.contents
              /\ Returned(w.new_contents)
                    \in RunOneOutcomes(CurrentLinter, w.contents)
              /\ w.path = w.filename
              /\ tree' = [tree EXCEPT ![w.filename] = w.new_contents] ]_vars

\* Under 'fix' two linters ran; each changed a.js, and the file holds what
\* the second returned.
C5_Witness ==
    /\ tool = "fix"
    /\ main_pc = "exit1"
    /\ \E w1, w2 \in writes :
          /\ w1.path = "a.js"
          /\ w2.path = "a.js"
          /\ w1.new_contents = w2.contents
          /\ tree["a.js"] = w2.new_contents
          /\ tree["a.js"] # head["a.js"]

Reported ==
    /\ main_pc \notin {"start", "linters", "pool"}
    /\ "SystemExit" \notin Range(log)
    /\ file_violations # {}

\* C6: once all linters ran and some file has a violation, main prints
\* 'Errors cannot be automatically fixed.' exactly when no result of any
\* linter was fixable; with a fixable result it calls
\* attempt_automatic_fixes, and prints the command line that fixes the files
\* when that returns False (validate), or prints that files were written
\* (fix).
C6_CannotBeFixed ==
    Reported =>
        /\ ("print: Errors cannot be automatically fixed." \in Range(log))
              <=> ~(\E r \in all_results : r.fixable)
        /\ (\E r \in all_results : r.fixable) =>
              IF tool = "validate"
              THEN /\ main_pc = "exit1" => aaf_result # "none"
                   /\ aaf_result = "False"
                         <=> "print: Please run ... to fix them" \in Range(log)
              ELSE /\ main_pc = "exit1"
                   /\ aaf_result = "none"
                   /\ log[Len(log)] = "print: Files written to working directory."

\* Two linters ran under 'validate': the first left a fixable result, the
\* second one that cannot be fixed, and main went on to
\* attempt_automatic_fixes.
C6_Witness ==
    /\ Reported
    /\ tool = "validate"
    /\ linters_run = <<"whitespace", "python">>
    /\ \E r \in all_results : r.fixable
    /\ \E r \in all_results : r.violation # "None" /\ ~r.fixable
    /\ aaf_result = "False"

(***************************************************************************)
(* attempt_automatic_fixes                                                 *)
(***************************************************************************)
Commits == {"git commit --amend", "git commit -m"}

\* C7: git commit runs only after, in this order, prompt returned True for
\* 'Want to automatically fix errors?', the fix command ran, git status
\* printed a change set that is not empty, and prompt returned True for
\* 'Want to also commit the fixes?'; once the user declined the first prompt
\* neither the fix command nor git commit runs.
C7_CommitOrder ==
    /\ \A i \in 1..Len(log) :
          log[i] \in Commits =>
              /\ i > 4
              /\ log[i - 4] = "Want to automatically fix errors?: yes"
              /\ log[i - 3] = "fix"
              /\ log[i - 2] \in {"git status: " \o status :
                                    status \in GitStatusOutputs \ {""}}
              /\ log[i - 1] = "Want to also commit the fixes?: yes"
    /\ \A i \in 1..Len(log) :
          log[i] = "fix" =>
              /\ i > 1
              /\ log[i - 1] = "Want to automatically fix errors?: yes"
    /\ "Want to automatically fix errors?: no" \in Range(log) =>
          /\ "fix" \notin Range(log)
          /\ Range(log) \cap Commits = {}
          /\ main_pc = "exit1"
          /\ aaf_result = "False"

\* The whole of the workflow: both prompts answered yes, and git commit ran.
C7_Witness ==
    /\ main_pc = "exit1"
    /\ aaf_result = "True"
    /\ Len(log) = 5
    /\ log[5] \in Commits
    /\ stdin_reads = 2

\* The user declined the first prompt.
C7_WitnessDeclined ==
    /\ "Want to automatically fix errors?: no" \in Range(log)
    /\ stdin_reads > 0

\* C8: with --continuous-integration or CONTINUOUS_INTEGRATION=true, stdin is
\* closed before any linter runs, no input is ever read, no prompt is
\* answered, and attempt_automatic_fixes returns False with neither the fix
\* command nor git commit run.
C8_NoPrompts ==
    (continuous_integration \/ env_ci) =>
        /\ (main_pc # "start" /\ args_files # <<>>) => stdin_closed
        /\ linters_run # <<>> => log[1] = "sys.stdin.close"
        /\ stdin_reads = 0
        /\ stdin_tty = "unread"
        /\ main_pc \notin {"prompt_fix", "run_fix", "git_status",
                           "prompt_commit", "commit", "raised"}
        /\ aaf_result \in {"none", "False"}
        /\ \A i \in 1..Len(log) :
              log[i] \in {"sys.stdin.close", "SystemExit",
                          "print: Errors cannot be automatically fixed.",
                          "print: Files written to working directory.",
                          "print: Please run ... to fix them"}

\* The environment variable alone: attempt_automatic_fixes was called and
\* returned False.
C8_Witness ==
    /\ env_ci
    /\ ~continuous_integration
    /\ stdin_closed
    /\ aaf_result = "False"
    /\ main_pc = "exit1"

(***************************************************************************)
(* parse_arguments                                                         *)
(***************************************************************************)
FirstSeparator(args) ==
    CHOOSE i \in 1..Len(args) :
        args[i] = "--" /\ \A j \in 1..(i - 1) : args[j] # "--"

\* C11: on arguments that contain '--', the files returned are the
\* arguments after the first '--', in order, and the argument list is cut
\* down to the arguments before it: the '--' is in neither, and nothing else
\* is lost or repeated.
C11_ExplicitSeparator ==
    (cmd_pc # "start" /\ "--" \in Range(cmd_given)) =>
        LET i == FirstSeparator(cmd_given)
        IN  /\ cmd_files = SubSeq(cmd_given, i + 1, Len(cmd_given))
            /\ cmd_argv = SubSeq(cmd_given, 1, i - 1)
            /\ cmd_argv \o <<"--">> \o cmd_files = cmd_given

\* Two separators: the second one is the first of the files.
C11_Witness ==
    /\ cmd_pc = "listed"
    /\ cmd_given = <<"HEAD", "--", "--", "foo">>
    /\ cmd_argv = <<"HEAD">>
    /\ cmd_files = <<"--", "foo">>

\* What the tests take for a commit
IsCommit(argument) == argument = "HEAD"

\* C12: on arguments without '--', the leading arguments that name commits
\* stay as the commits, and the first argument that names no commit is
\* returned, with everything after it, as the files.
C12_Sniffing ==
    (cmd_pc # "start" /\ "--" \notin Range(cmd_given)) =>
        LET n == Cardinality({i \in 1..Len(cmd_given) :
                                 \A j \in 1..i : IsCommit(cmd_given[j])})
        IN  /\ cmd_argv = SubSeq(cmd_given, 1, n)
            /\ cmd_files = SubSeq(cmd_given, n + 1, Len(cmd_given))

\* sorted(): the order of str
Rank(filename) ==
    CASE filename = "a.js" -> 1
      [] filename = "a.py" -> 2

\* C13: with files given after '--', args.files is those files in the order
\* given and git is asked for no list; otherwise args.files is the sorted
\* list of the files git names, those of the diff range or, with
\* --all-files, all files at HEAD.
C13_CandidateFiles ==
    cmd_pc = "done" =>
        LET i == IndexFrom(cmd_given, "--", 1)
            given == IF i = 0 THEN <<>>
                     ELSE SubSeq(cmd_given, i + 1, Len(cmd_given))
        IN  IF given # <<>>
            THEN /\ cmd_args_files = given
                 /\ cmd_git = "none"
            ELSE /\ cmd_git = (IF cmd_all_files THEN "ls-tree" ELSE "diff")
                 /\ Range(cmd_args_files) = cmd_listing
                 /\ \A j, k \in 1..Len(cmd_args_files) :
                       j < k => Rank(cmd_args_files[j]) < Rank(cmd_args_files[k])

\* Without explicit files, git listed two files and args.files holds them
\* sorted.
C13_Witness ==
    /\ cmd_pc = "done"
    /\ "--" \notin Range(cmd_given)
    /\ cmd_git = "diff"
    /\ cmd_listing = {"a.js", "a.py"}
    /\ cmd_args_files = <<"a.js", "a.py">>

\* Explicit files: git is not asked.
C13_WitnessExplicit ==
    /\ cmd_pc = "done"
    /\ cmd_given = <<"HEAD", "--", "foo", "HEAD">>
    /\ cmd_args_files = <<"foo", "HEAD">>

\* C14: _validate_args accepts exactly when there are one or two commits
\* and, with --all-files, the commits are ['HEAD'] and no explicit file was
\* given; otherwise parse_arguments exits with status 1, before any list of
\* candidate files is computed.
C14_ValidateArgs ==
    cmd_pc \in {"validated", "done", "exit1"} =>
        LET accepted ==
                /\ Len(cmd_commits) \in {1, 2}
                /\ cmd_all_files =>
                      (cmd_commits = <<"HEAD">> /\ cmd_files = <<>>)
        IN  /\ cmd_pc = "exit1" <=> ~accepted
            /\ cmd_pc = "exit1" =>
                  (cmd_git = "none" /\ cmd_args_files = <<>> /\ cmd_listing = {})

\* Three commits, without --all-files: rejected.
C14_Witness ==
    /\ cmd_pc = "exit1"
    /\ ~cmd_all_files
    /\ Len(cmd_commits) = 3

(***************************************************************************)
(* The linters that run external tools                                     *)
(***************************************************************************)
Terminated == run_pc \in {"returned", "raised"}

NoCommandFailed == \A i \in 1..Len(run_ran) : run_ran[i][2] # "fail"

\* The first line of |contents|, its newline included
FirstLine(contents) ==
    IF \E i \in 1..Len(contents) : contents[i] = "LF"
    THEN SubSeq(contents, 1,
                CHOOSE i \in 1..Len(contents) :
                    contents[i] = "LF" /\ \A j \in 1..(i - 1) : contents[j] # "LF")
    ELSE contents

\* C15: for every JavaScript input that starts with '#!' (and tools that
\* succeed), _lint_javascript returns normally, the first line of its output
\* is the first line of the input, and only the rest of the input was
\* written for the tools.
C15_ShebangKept ==
    ( /\ run_kind = "javascript"
      /\ StartsWithShebang(run_contents)
      /\ Terminated
      /\ NoCommandFailed ) =>
        /\ run_pc = "returned"
        /\ FirstLine(run_result[1]) = FirstLine(run_contents)
        /\ FirstLine(run_contents) \o run_written = run_contents

\* C16: PythonLinter.run_one returns the input contents with no violation
\* when pep8 and pylint both succeed, whatever they did to the temporary
\* file; it raises a LinterException with fixable=False when either fails;
\* and pylint runs only after pep8 succeeded.
C16_PythonLinter ==
    (run_kind = "python" /\ Terminated) =>
        /\ Len(run_ran) \in {1, 2}
        /\ run_ran[1][1] = "pep8"
        /\ Len(run_ran) = 2 =>
              (run_ran[1][2] # "fail" /\ run_ran[2][1] = "pylint")
        /\ IF NoCommandFailed
           THEN /\ run_pc = "returned"
                /\ Len(run_ran) = 2
                /\ run_result = <<run_contents, <<>> >>
           ELSE /\ run_pc = "raised"
                /\ run_result = <<>>
                /\ run_error = [type |-> "LinterException", fixable |-> FALSE]

\* pep8 and pylint both succeeded, and one of them changed the temporary
\* file.
C16_Witness ==
    /\ run_kind = "python"
    /\ run_pc = "returned"
    /\ run_contents = <<"X", "LF", "X", "LF">>
    /\ run_tmp # run_contents

\* pep8 succeeded and pylint failed.
C16_WitnessPylint ==
    /\ run_kind = "python"
    /\ run_pc = "raised"
    /\ Len(run_ran) = 2

\* The contents |commands| leave, run in order from |tmp| on
RECURSIVE Left(_, _)
Left(commands, tmp) ==
    IF commands = <<>> THEN tmp
    ELSE Left(Tail(commands), Effect(Head(commands), tmp))

\* C17: the command linter's run_one runs the configured commands in their
\* order on one temporary copy of the contents and returns what they left
\* in it, with the violations ['command']; the first command that fails
\* stops the run with a LinterException that is not fixable, and no later
\* command runs.
C17_CommandLinter ==
    (run_kind = "custom" /\ Terminated) =>
        LET k == IndexFrom(run_options, "fail", 1)
        IN  IF k = 0
            THEN /\ run_pc = "returned"
                 /\ run_written = run_contents
                 /\ [i \in 1..Len(run_ran) |-> run_ran[i][1]] = run_options
                 /\ run_result = <<Left(run_options, run_contents), <<"command">> >>
            ELSE /\ run_pc = "raised"
                 /\ [i \in 1..Len(run_ran) |-> run_ran[i][1]]
                       = SubSeq(run_options, 1, k)
                 /\ run_error = [type |-> "LinterException", fixable |-> FALSE]

(***************************************************************************)
(* main: fixes, exit status, the files offered for fixing                  *)
(***************************************************************************)
\* C18: under 'fix' every linter reads, for each file, the contents that
\* the linters before it left in the working tree, and the fix a linter
\* wrote is still in the file when the run ends, with one commit and with
\* two commits given.
C18_FixesAccumulate ==
    tool = "fix" =>
        /\ \A filename \in DOMAIN tasks :
              tasks[filename].pc # "done" =>
                  tasks[filename].contents = tree[filename]
        /\ \A w \in writes :
              tree[w.path] \cap (w.contents \ w.new_contents) = {}

HadViolation == \E r \in all_results : r.violation # "None"

Exited == main_pc \in {"returned", "exit1", "raised"}

C20_OfferedAreFixable ==
    (main_pc \notin {"start", "linters", "pool", "returned"}
        /\ (aaf_result # "none" \/ main_pc # "exit1")) =>
        \A filename \in file_violations :
            \E r \in all_results : r.violation = filename /\ r.fixable

(***************************************************************************)
(* Claims: I18nLinter                                                      *)
(***************************************************************************)
I18nReturned == i18n.pc \in {"returned", "done"} /\ i18n.exception = NoException

\* C21: the two maps run_all returns have the same keys; for every path in
\* them the first holds the freshly generated contents and the second the
\* contents read through the callback, so that under 'fix' the file of
\* every such path holds the generated contents once _run_linter_all is
\* done.
C21_RunAllMaps ==
    I18nReturned =>
        /\ DOMAIN i18n.new_contents = DOMAIN i18n.original_contents
        /\ \A path \in DOMAIN i18n.new_contents :
              /\ i18n.new_contents[path] = Encode(Generate(path))
              /\ i18n.original_contents[path] = i18n.disk[path]
        /\ (i18n.pc = "done" /\ ~i18n.validate) =>
              \A path \in DOMAIN i18n.new_contents :
                  i18n.tree[path] = Encode(Generate(path))

(***************************************************************************)
(* Claims: _get_changed_files                                              *)
(***************************************************************************)
\* Where the header of the k-th record stands among the tokens, from 0.
RECURSIVE HeaderIndex(_, _)
HeaderIndex(output, k) ==
    IF k = 1 THEN 0
    ELSE HeaderIndex(output, k - 1) + Len(RecordTokens(output[k - 1]))

ExpectedPath(record) ==
    PathToken(IF TwoPaths(record) THEN record.dest ELSE record.src)

OutputRead == diff.pc \in {"done", "raised"} /\ diff.tokens # <<>>

\* C22: on a well-formed output _get_changed_files looks at the header of
\* every record once and at nothing else, its assertion does not fail, and
\* it yields for every record the destination of a copy or rename and the
\* one path of any other status.
C22_ChangedFiles ==
    OutputRead =>
        /\ diff.error = "None"
        /\ diff.visited =
              [k \in 1..Len(diff.output) |->
                  HeaderIndex(diff.output, k)]
        /\ diff.yielded =
              [k \in 1..Len(diff.output) |->
                  ExpectedPath(diff.output[k])]

(***************************************************************************)
(* Claims: the commit of attempt_automatic_fixes                           *)
(***************************************************************************)
FirstIsParentOfSecond ==
    /\ Len(commit.commits) = 2
    /\ Resolve(commit.commits[1]) = Parent(Resolve(commit.commits[2]))

\* C23: the commit amends the previous commit exactly when two commits were
\* given and the first is the parent of the second, and otherwise is a new
\* commit with the message 'Fixed <scriptname> lints'; either is limited to
\* the files given and takes --all when none is given.
C23_CommitCommand ==
    commit.command # <<>> =>
        commit.command =
            (IF FirstIsParentOfSecond
             THEN <<"/usr/bin/git", "commit", "--amend", "--no-edit">>
             ELSE <<"/usr/bin/git", "commit", "-m", "Fixed lint.py lints">>)
            \o (IF commit.files \in {None, <<>>}
                THEN <<"--all">>
                ELSE <<"--">> \o commit.files)

(***************************************************************************)
(* Claims: what attempt_automatic_fixes returns                            *)
(***************************************************************************)
\* main called attempt_automatic_fixes, and the call is over: the linters
\* all ran, a file had a violation that can be fixed, and main is left.
AafOver ==
    /\ main_pc \in {"exit1", "raised"}
    /\ "SystemExit" \notin Range(log)
    /\ Validate
    /\ file_violations # {}
    /\ fixable

Accepted == "Want to automatically fix errors?: yes" \in Range(log)

StatusShowedChanges ==
    \E status \in GitStatusOutputs \ {""} :
        "git status: " \o status \in Range(log)

PleaseRun == "print: Please run ... to fix them" \in Range(log)

\* C24, as stated: attempt_automatic_fixes returns True exactly when the
\* user accepted the fix and git status showed changes, and False in every
\* other case; after True main exits with 1 and does not print the
\* 'Please run ... to fix them' message.
C24_ReturnsTrue ==
    AafOver =>
        /\ aaf_result = "True" <=> (Accepted /\ StatusShowedChanges)
        /\ aaf_result = "False" <=> ~(Accepted /\ StatusShowedChanges)
        /\ aaf_result = "True" => (main_pc = "exit1" /\ ~PleaseRun)

\* C24, as the code has it: when the user accepted the fix and git status
\* showed changes, attempt_automatic_fixes returns True unless the user
\* also asked for the commit and git commit failed: then it does not
\* return, CalledProcessError leaves main, and nothing more is printed.
\* In every other case it returns False, and main prints the message.
C24_ReturnsTrueUnlessCommitFails ==
    AafOver =>
        /\ aaf_result = "True"
              <=> (Accepted /\ StatusShowedChanges
                      /\ "CalledProcessError" \notin Range(log))
        /\ aaf_result = "False" <=> ~(Accepted /\ StatusShowedChanges)
        /\ aaf_result = "none"
              <=> (Accepted /\ StatusShowedChanges
                      /\ "Want to also commit the fixes?: yes" \in Range(log)
                      /\ log[Len(log)] = "CalledProcessError")
        /\ aaf_result = "none" <=> main_pc = "raised"
        /\ aaf_result = "True" => (main_pc = "exit1" /\ ~PleaseRun)
        /\ aaf_result = "False" => (main_pc = "exit1" /\ PleaseRun)
        /\ aaf_result = "none" => ~PleaseRun

\* The fix was accepted and left changes, the commit was declined:
\* attempt_automatic_fixes returned True and main exited with 1.
C24_Witness ==
    /\ AafOver
    /\ aaf_result = "True"
    /\ main_pc = "exit1"
    /\ Accepted
    /\ StatusShowedChanges
    /\ "Want to also commit the fixes?: no" \in Range(log)

\* The commit was asked for and git commit failed.
C24_WitnessCommitFailed ==
    /\ AafOver
    /\ aaf_result = "none"
    /\ main_pc = "raised"

====
